---- MODULE Spec2Model ----
(***************************************************************************)
(* A model of telekit: the entity renderer, EntitiesToHTML (entities.go),  *)
(* the dispatch of commands under the per-user command lock (dispatch.go,  *)
(* command.go), the life cycle of a Bot (bot.go), the command menu and its *)
(* scope keys, the album collector and the flood-wait middleware.          *)
(*                                                                         *)
(* The text is a TLA+ string; every character of the alphabets used here   *)
(* is one code point, so the string is also the rune slice of the text.    *)
(* The markup is built as a real string, tag by tag and segment by         *)
(* segment, exactly as strings.Builder receives it.                        *)
(***************************************************************************)
EXTENDS Integers, Sequences, FiniteSets, TLC

VARIABLES
    text,           \* the text argument
    entities,       \* the entities argument: a sequence of entity records
    pc,             \* "start" | "classified" | "sweep" | "flush" | "done" | "panic"
    infos,          \* []*entityInfo built by the classification loop
    events,         \* []tagEvent, sorted
    evIdx,          \* index (1-based) of the next event of the sweep loop
    openStack,      \* stack of currently open entities (innermost last)
    alreadyClosed,  \* ids whose close tag has been written
    lastPos,        \* cursor into the runes
    result,         \* the strings.Builder
    tagLog,         \* history: every tag written, with the span id and the cursor
    locks,          \* CommandLock.locks: the user ids whose entry is true
    calls,          \* the call of Bot.handleCommand of each goroutine
    routed,         \* history: the last message Bot.handleMessage has routed
    running,        \* Bot.running (atomic.Bool)
    api,            \* Bot.api: "nil" or "set"
    runs,           \* the call of Bot.Run of each goroutine
    handlers,       \* Bot.commandHandlers: the command definitions registered
    readyDefs,      \* history: the definitions the OnReady callback registered
    snapshot,       \* history: the handlers read by the SyncCommands of Run
    updates,        \* the updates processed so far
    lastOp,         \* history: the last operation called from outside Run
    config,         \* Bot.config, as far as Run reads it
    saved,          \* the scope keys in command_scopes.json
    server,         \* the scope keys that have commands set at Telegram
    albums,         \* albumCollector.albums: the message ids of each group
    timers,         \* every timer made by add, with its state
    now,            \* the clock
    messages,       \* history: every message handled, with the time of its add
    deliveries,     \* history: the calls of the album callback
    handled,        \* history: the messages processed one by one
    flood,          \* the call of floodWaitMiddleware.Handle of each goroutine
    keyCall         \* a call of scopeKeyString followed by parseScopeKey

renderVars == <<text, entities, pc, infos, events, evIdx, openStack, alreadyClosed,
                lastPos, result, tagLog>>

lockVars == <<locks, calls, routed>>

runVars == <<running, api, runs, handlers, readyDefs, snapshot, updates, lastOp,
             config, saved, server>>

albumVars == <<albums, timers, now, messages, deliveries, handled>>

botVars == <<lockVars, runVars, albumVars, flood, keyCall>>

vars == <<renderVars, botVars>>

---------------------------------------------------------------------------
(* Bounds of the explored inputs. *)

MaxLen == 2         \* longest text of the general specification
MaxEnt == 2         \* most entities of the general specification
NestLen == 4        \* longest text of the nesting specification
MaxSpans == 3       \* most entities of the nesting specification
KindLen == 3        \* longest text of the specification of the kinds
WideLen == 3        \* longest text of the specification of the wide runes
QuoteLen == 2       \* longest text of the specification of the blocks
QuoteEnt == 2       \* most entities of the specification of the blocks
NumGoroutines == 2  \* goroutines that handle updates at the same time
MaxUserID == 2      \* sender ids run from 0 (no user sender) to MaxUserID
MaxUpdates == 1     \* most updates processed during one Run
MaxGroup == 1       \* GroupedID runs from 0 (no album) to MaxGroup
MaxMessages == 3    \* most messages handled
MaxTime == 4        \* the clock runs from 0 to MaxTime
MaxFloods == 2      \* most FLOOD_WAIT answers to one request
MaxScopeID == 1     \* the ids of the scopes run from -1 to MaxScopeID
MaxNameLen == 2     \* longest username of a scope

---------------------------------------------------------------------------
(* Strings as rune slices. *)

\* runes[i], 0-based
RuneAt(runes, i) == SubSeq(runes, i + 1, i + 1)

\* A rune read from the backing array beyond len(runes): the array is zeroed,
\* so the rune is U+0000. It is written "0" here; no alphabet contains "0".
ZeroRune == "0"

RECURSIVE Zeros(_)
Zeros(n) == IF n <= 0 THEN "" ELSE ZeroRune \o Zeros(n - 1)

\* string(runes[a:b]) for 0 <= a <= b, b possibly beyond len(runes) but within
\* the capacity of the slice
SliceRunes(runes, a, b) ==
    LET n == Len(runes)
        hi == IF b < n THEN b ELSE n
    IN  (IF a < hi THEN SubSeq(runes, a + 1, hi) ELSE "")
        \o Zeros(b - (IF a > n THEN a ELSE n))

\* html.EscapeString, one rune
EscapeRune(c) ==
    CASE c = "&" -> "&amp;"
      [] c = "'" -> "&#39;"
      [] c = "<" -> "&lt;"
      [] c = ">" -> "&gt;"
      [] c = "\"" -> "&#34;"
      [] OTHER -> c

RECURSIVE EscapeString(_)
EscapeString(s) ==
    IF s = "" THEN "" ELSE EscapeRune(SubSeq(s, 1, 1)) \o EscapeString(Tail(s))

\* strings.ReplaceAll(s, "\n", "<br>")
RECURSIVE ReplaceNewlines(_)
ReplaceNewlines(s) ==
    IF s = "" THEN ""
    ELSE (IF SubSeq(s, 1, 1) = "\n" THEN "<br>" ELSE SubSeq(s, 1, 1))
         \o ReplaceNewlines(Tail(s))

\* strings.TrimPrefix(s, "@")
TrimPrefixAt(s) ==
    IF Len(s) >= 1 /\ SubSeq(s, 1, 1) = "@" THEN Tail(s) ELSE s

\* strings.HasPrefix
HasPrefix(s, prefix) ==
    Len(prefix) <= Len(s) /\ SubSeq(s, 1, Len(prefix)) = prefix

\* strings.IndexByte, counted from 1; 0 when c is not in s
IndexByte(s, c) ==
    LET hits == {i \in 1..Len(s) : SubSeq(s, i, i) = c}
    IN  IF hits = {} THEN 0 ELSE CHOOSE i \in hits : \A j \in hits : i <= j

Digit(d) == SubSeq("0123456789", d + 1, d + 1)

RECURSIVE FormatNat(_)
FormatNat(n) == IF n < 10 THEN Digit(n) ELSE FormatNat(n \div 10) \o Digit(n % 10)

\* strconv.FormatInt(n, 10)
FormatInt(n) == IF n < 0 THEN "-" \o FormatNat(0 - n) ELSE FormatNat(n)

---------------------------------------------------------------------------
(* Classification: the loop over the entities. *)

\* The entity kinds of the type switch. "Hashtag" stands for the kinds that
\* reach the default case.
Kinds == {"Bold", "Italic", "Code", "Pre", "Strike", "Underline", "Blockquote",
          "Spoiler", "TextURL", "MentionName", "Mention", "URL", "CustomEmoji",
          "Hashtag"}

\* An entity: the fields the renderer reads.
Entity(kind, offset, length, language, collapsed, url, userID) ==
    [kind |-> kind, offset |-> offset, length |-> length, language |-> language,
     collapsed |-> collapsed, url |-> url, userID |-> userID]

EntityInfo(offset, length, startTag, endTag, id, isBlockquote, isPre) ==
    [offset |-> offset, length |-> length, startTag |-> startTag,
     endTag |-> endTag, id |-> id, isBlockquote |-> isBlockquote, isPre |-> isPre]

\* offset < 0 || offset+length > len(runes)
OutOfBounds(runes, offset, length) ==
    offset < 0 \/ offset + length > Len(runes)

\* A variant of IsTrimRune that knows the space only
IsTrimRuneSpaceOnly(c) == c = " "

IsTrimRune(c) == c = " " \/ c = "\t"

\* for length > 0 && (runes[offset+length-1] == ' ' || ... == '\t') { length-- }
RECURSIVE TrimTrailing(_, _, _)
TrimTrailing(runes, offset, length) ==
    IF length > 0 /\ IsTrimRune(RuneAt(runes, offset + length - 1))
    THEN TrimTrailing(runes, offset, length - 1)
    ELSE length

\* The outcome of one iteration of the loop: the entity is skipped (continue),
\* appended to infos, or the iteration panics.
Skip == [t |-> "skip"]
Panic == [t |-> "panic"]
Keep(info) == [t |-> "keep", info |-> info]

\* The tail of the loop body, after the switch: bounds check, trim, append.
Generic(runes, offset, length, startTag, endTag, i) ==
    IF OutOfBounds(runes, offset, length) THEN Skip
    ELSE LET trimmed == TrimTrailing(runes, offset, length)
         IN  IF trimmed <= 0 THEN Skip
             ELSE Keep(EntityInfo(offset, trimmed, startTag, endTag, i, FALSE, FALSE))

PreStartTag(lang) ==
    IF lang # "" THEN "<pre><code class=\"language-" \o lang \o "\">"
    ELSE "<pre><code>"

\* A variant of ClassifyPre that clamps a range that runs past the text
ClassifyPreClamped(runes, e, i) ==
    IF e.offset < 0 \/ e.offset > Len(runes) THEN Skip
    ELSE Keep(EntityInfo(e.offset,
                         IF e.offset + e.length > Len(runes)
                         THEN Len(runes) - e.offset ELSE e.length,
                         PreStartTag(e.language), "</code></pre>", i, FALSE, TRUE))

ClassifyPre(runes, e, i) ==
    IF OutOfBounds(runes, e.offset, e.length) THEN Skip
    ELSE Keep(EntityInfo(e.offset, e.length, PreStartTag(e.language),
                         "</code></pre>", i, FALSE, TRUE))

ClassifyBlockquote(runes, e, i) ==
    IF OutOfBounds(runes, e.offset, e.length) THEN Skip
    ELSE Keep(EntityInfo(e.offset, e.length,
                         IF e.collapsed THEN "<blockquote class=\"expandable\">"
                         ELSE "<blockquote>",
                         "</blockquote>", i, TRUE, FALSE))

\* runes[offset:offset+length] is evaluated after the bounds check only; it
\* panics when length is negative (slice bounds out of range).
ClassifyMention(runes, e, i) ==
    IF OutOfBounds(runes, e.offset, e.length) THEN Skip
    ELSE IF e.length < 0 THEN Panic
    ELSE LET username == TrimPrefixAt(SliceRunes(runes, e.offset, e.offset + e.length))
         IN  Generic(runes, e.offset, e.length,
                     "<a href=\"https://t.me/" \o username \o "\">", "</a>", i)

ClassifyURL(runes, e, i) ==
    IF OutOfBounds(runes, e.offset, e.length) THEN Skip
    ELSE IF e.length < 0 THEN Panic
    ELSE LET url == SliceRunes(runes, e.offset, e.offset + e.length)
         IN  Generic(runes, e.offset, e.length,
                     "<a href=\"" \o EscapeString(url) \o "\">", "</a>", i)

\* A variant of ClassifyCustomEmoji that tags the emoji
ClassifyCustomEmojiTagged(runes, e, i) ==
    Generic(runes, e.offset, e.length, "<tg-emoji>", "</tg-emoji>", i)

\* case *tg.MessageEntityCustomEmoji: continue
ClassifyCustomEmoji(runes, e, i) == Skip

\* default: continue
ClassifyDefault(runes, e, i) == Skip

\* switch e := entity.(type), and what follows it
ClassifyEntity(runes, e, i) ==
    CASE e.kind = "Bold" -> Generic(runes, e.offset, e.length, "<strong>", "</strong>", i)
      [] e.kind = "Italic" -> Generic(runes, e.offset, e.length, "<em>", "</em>", i)
      [] e.kind = "Code" -> Generic(runes, e.offset, e.length, "<code>", "</code>", i)
      [] e.kind = "Pre" -> ClassifyPre(runes, e, i)
      [] e.kind = "Strike" -> Generic(runes, e.offset, e.length, "<s>", "</s>", i)
      [] e.kind = "Underline" -> Generic(runes, e.offset, e.length, "<u>", "</u>", i)
      [] e.kind = "Blockquote" -> ClassifyBlockquote(runes, e, i)
      [] e.kind = "Spoiler" ->
            Generic(runes, e.offset, e.length, "<span class=\"spoiler\">", "</span>", i)
      [] e.kind = "TextURL" ->
            Generic(runes, e.offset, e.length,
                    "<a href=\"" \o EscapeString(e.url) \o "\">", "</a>", i)
      [] e.kind = "MentionName" ->
            Generic(runes, e.offset, e.length,
                    "<a href=\"tg://user?id=" \o FormatInt(e.userID) \o "\">", "</a>", i)
      [] e.kind = "Mention" -> ClassifyMention(runes, e, i)
      [] e.kind = "URL" -> ClassifyURL(runes, e, i)
      [] e.kind = "CustomEmoji" -> ClassifyCustomEmoji(runes, e, i)
      [] OTHER -> ClassifyDefault(runes, e, i)

\* for i, entity := range entities { ... }: the infos built from entities k..n,
\* or "panic" when an iteration panics. i is the 0-based index of the entity.
RECURSIVE ClassifyFrom(_, _, _, _)
ClassifyFrom(runes, ents, k, acc) ==
    IF k > Len(ents) THEN [panic |-> FALSE, infos |-> acc]
    ELSE LET r == ClassifyEntity(runes, ents[k], k - 1)
         IN  CASE r.t = "panic" -> [panic |-> TRUE, infos |-> acc]
               [] r.t = "skip" -> ClassifyFrom(runes, ents, k + 1, acc)
               [] OTHER -> ClassifyFrom(runes, ents, k + 1, Append(acc, r.info))

ClassifyAll(runes, ents) == ClassifyFrom(runes, ents, 1, <<>>)

---------------------------------------------------------------------------
(* Event generation and ordering. *)

TagEvent(pos, isStart, entity, priority) ==
    [pos |-> pos, isStart |-> isStart, entity |-> entity, priority |-> priority]

\* for _, info := range infos { events = append(events, start, end) }
RECURSIVE MakeEvents(_)
MakeEvents(is) ==
    IF is = <<>> THEN <<>>
    ELSE LET info == Head(is)
         IN  <<TagEvent(info.offset, TRUE, info, 0),
               TagEvent(info.offset + info.length, FALSE, info, 1)>>
             \o MakeEvents(Tail(is))

\* cmp.Compare
Compare(x, y) == IF x < y THEN 0 - 1 ELSE IF x > y THEN 1 ELSE 0

\* A variant of EventCmp that opens the shorter entity first
EventCmpShorterFirst(a, b) ==
    IF Compare(a.pos, b.pos) # 0 THEN Compare(a.pos, b.pos)
    ELSE IF Compare(a.priority, b.priority) # 0 THEN Compare(a.priority, b.priority)
    ELSE Compare(a.entity.length, b.entity.length)

\* A variant of EventCmp that compares no lengths
EventCmpNoLength(a, b) ==
    IF Compare(a.pos, b.pos) # 0 THEN Compare(a.pos, b.pos)
    ELSE Compare(a.priority, b.priority)

\* The comparison function handed to slices.SortFunc
EventCmp(a, b) ==
    IF Compare(a.pos, b.pos) # 0 THEN Compare(a.pos, b.pos)
    ELSE IF Compare(a.priority, b.priority) # 0 THEN Compare(a.priority, b.priority)
    ELSE IF a.isStart THEN Compare(b.entity.length, a.entity.length)
    ELSE Compare(a.entity.length, b.entity.length)

\* slices.SortFunc sorts a slice of at most 12 elements by insertion sort:
\*   for i := 1; i < n; i++ {
\*       for j := i; j > 0 && cmp(data[j], data[j-1]) < 0; j-- { swap(j, j-1) } }
\* 2 * MaxEnt and 2 * MaxSpans stay below 12.
RECURSIVE InsertLeft(_, _)
InsertLeft(data, j) ==
    IF j > 1 /\ EventCmp(data[j], data[j - 1]) < 0
    THEN InsertLeft([data EXCEPT ![j] = data[j - 1], ![j - 1] = data[j]], j - 1)
    ELSE data

RECURSIVE InsertionSort(_, _)
InsertionSort(data, i) ==
    IF i > Len(data) THEN data ELSE InsertionSort(InsertLeft(data, i), i + 1)

SortEvents(evs) == InsertionSort(evs, 2)

\* closingAt[pos]: the ids of the entities whose end event is at pos
ClosingAt(evs, pos) ==
    {evs[k].entity.id : k \in {j \in 1..Len(evs) : ~evs[j].isStart /\ evs[j].pos = pos}}

---------------------------------------------------------------------------
(* The sweep. *)

InsideBlockquote(stack) == \E k \in 1..Len(stack) : stack[k].isBlockquote

InsidePre(stack) == \E k \in 1..Len(stack) : stack[k].isPre

\* The text written for a segment flushed before an event
SegmentText(rawText, stack) ==
    IF InsidePre(stack) THEN rawText
    ELSE IF InsideBlockquote(stack) THEN ReplaceNewlines(EscapeString(rawText))
    ELSE EscapeString(rawText)

\* The text written by the flush after the last event
FinalText(rawText, stack) ==
    IF InsideBlockquote(stack) THEN ReplaceNewlines(EscapeString(rawText))
    ELSE EscapeString(rawText)

TagOpen(e, pos) == [op |-> "open", id |-> e.id, pos |-> pos]
TagClose(e, pos) == [op |-> "close", id |-> e.id, pos |-> pos]

\* The sweep state carried from event to event
SweepState(p, stack, closed, pos, res, log) ==
    [pc |-> p, openStack |-> stack, alreadyClosed |-> closed, lastPos |-> pos,
     result |-> res, tagLog |-> log]

\* How runes[lastPos:event.pos] can end when event.pos > len(runes): the slice
\* expression panics when event.pos exceeds the capacity of the rune slice and
\* reads zeroed runes otherwise; the capacity []rune(text) gets is the
\* allocator's choice.
SliceModes(runes, pos, evPos) ==
    IF evPos > pos /\ evPos > Len(runes) THEN {"panic", "zero"} ELSE {"inrange"}

\* if event.pos > lastPos { ... result.WriteString(text); lastPos = event.pos }
FlushBefore(runes, st, ev, mode) ==
    IF ev.pos > st.lastPos
    THEN IF mode = "panic"
         THEN [st EXCEPT !.pc = "panic"]
         ELSE [st EXCEPT
                  !.result = @ \o SegmentText(SliceRunes(runes, st.lastPos, ev.pos),
                                              st.openStack),
                  !.lastPos = ev.pos]
    ELSE st

\* idx: the first position of the id on the stack, 0 when absent (1-based)
StackIndex(stack, id) ==
    IF \E k \in 1..Len(stack) : stack[k].id = id
    THEN CHOOSE k \in 1..Len(stack) :
            /\ stack[k].id = id
            /\ \A j \in 1..(k - 1) : stack[j].id # id
    ELSE 0

\* A variant of ToClose that collects from idx up
ToCloseBottomUp(stack, idx) == SubSeq(stack, idx, Len(stack))

\* for i := len(openStack) - 1; i >= idx; i-- { toClose = append(toClose, openStack[i]) }
ToClose(stack, idx) == [k \in 1..(Len(stack) - idx + 1) |-> stack[Len(stack) - k + 1]]

RECURSIVE EndTags(_)
EndTags(es) == IF es = <<>> THEN "" ELSE Head(es).endTag \o EndTags(Tail(es))

\* A variant of StillOpen that leaves the closed entities on the stack
StillOpenUnfiltered(stack, closed) == stack

\* for _, e := range openStack { if !alreadyClosed[e.id] { newStack = append(newStack, e) } }
RECURSIVE StillOpen(_, _)
StillOpen(stack, closed) ==
    IF stack = <<>> THEN <<>>
    ELSE (IF Head(stack).id \in closed THEN <<>> ELSE <<Head(stack)>>)
         \o StillOpen(Tail(stack), closed)

\* A variant of Reopens that leaves every closed entity closed
ReopensNever(e, ev, closing) == FALSE

\* Whether the reopen loop reopens e
Reopens(e, ev, closing) == e.id # ev.entity.id /\ e.id \notin closing

\* The reopen loop over toClose
RECURSIVE Reopen(_, _, _, _)
Reopen(st, es, ev, closing) ==
    IF es = <<>> THEN st
    ELSE LET e == Head(es)
         IN  IF Reopens(e, ev, closing)
             THEN Reopen([st EXCEPT
                             !.result = @ \o e.startTag,
                             !.openStack = Append(@, e),
                             !.alreadyClosed = @ \ {e.id},
                             !.tagLog = Append(@, TagOpen(e, st.lastPos))],
                         Tail(es), ev, closing)
             ELSE Reopen(st, Tail(es), ev, closing)

\* The else branch of the loop body: an end event
EndEvent(evs, st, ev) ==
    IF ev.entity.id \in st.alreadyClosed THEN st
    ELSE LET idx == StackIndex(st.openStack, ev.entity.id)
         IN  IF idx = 0 THEN st
             ELSE LET toClose == ToClose(st.openStack, idx)
                      closed == st.alreadyClosed
                                   \cup {toClose[k].id : k \in 1..Len(toClose)}
                      afterClose ==
                          [st EXCEPT
                              !.result = @ \o EndTags(toClose),
                              !.alreadyClosed = closed,
                              !.openStack = StillOpen(st.openStack, closed),
                              !.tagLog = @ \o [k \in 1..Len(toClose) |->
                                                 TagClose(toClose[k], st.lastPos)]]
                  IN  Reopen(afterClose, toClose, ev, ClosingAt(evs, ev.pos))

\* if event.isStart { result.WriteString(startTag); push }
StartEvent(st, ev) ==
    [st EXCEPT !.result = @ \o ev.entity.startTag,
               !.openStack = Append(@, ev.entity),
               !.tagLog = Append(@, TagOpen(ev.entity, st.lastPos))]

\* One iteration of: for _, event := range events { ... }
StepEvent(runes, evs, st, ev, mode) ==
    LET flushed == FlushBefore(runes, st, ev, mode)
    IN  IF flushed.pc = "panic" THEN flushed
        ELSE IF ev.isStart THEN StartEvent(flushed, ev)
        ELSE EndEvent(evs, flushed, ev)

\* if lastPos < len(runes) { ... }; return result.String()
FinalStep(runes, st) ==
    IF st.lastPos < Len(runes)
    THEN [st EXCEPT !.pc = "done",
                    !.result = @ \o FinalText(SliceRunes(runes, st.lastPos, Len(runes)),
                                              st.openStack)]
    ELSE [st EXCEPT !.pc = "done"]

---------------------------------------------------------------------------
(* EntitiesToHTML as a function of its arguments: the outcome ("done" with *)
(* the markup, or "panic") when every out-of-range slice of the sweep ends *)
(* the way mode says.                                                      *)

RECURSIVE SweepFrom(_, _, _, _, _)
SweepFrom(runes, evs, k, st, mode) ==
    IF st.pc = "panic" THEN st
    ELSE IF k > Len(evs) THEN FinalStep(runes, st)
    ELSE LET m == IF "inrange" \in SliceModes(runes, st.lastPos, evs[k].pos)
                  THEN "inrange" ELSE mode
         IN  SweepFrom(runes, evs, k + 1, StepEvent(runes, evs, st, evs[k], m), mode)

\* A variant of EarlyReturn that returns the text as it is
EarlyReturnRaw(txt) == SweepState("done", <<>>, {}, 0, txt, <<>>)

\* return html.EscapeString(text)
EarlyReturn(txt) == SweepState("done", <<>>, {}, 0, EscapeString(txt), <<>>)

RenderOutcome(txt, ents, mode) ==
    IF Len(ents) = 0 THEN EarlyReturn(txt)
    ELSE LET c == ClassifyAll(txt, ents)
         IN  IF c.panic THEN SweepState("panic", <<>>, {}, 0, "", <<>>)
             ELSE IF Len(c.infos) = 0 THEN EarlyReturn(txt)
             ELSE SweepFrom(txt, SortEvents(MakeEvents(c.infos)), 1,
                            SweepState("sweep", <<>>, {}, 0, "", <<>>), mode)

---------------------------------------------------------------------------
(* The command lock (command.go) and the dispatch of commands              *)
(* (Bot.handleCommand, dispatch.go:119-179).                               *)

Goroutines == 1..NumGoroutines

\* ctx.SenderID(): a user id, or 0 for a message with no user sender
UserIDs == 0..MaxUserID

\* A variant of TryAcquire that takes the lock without looking at it
TryAcquireUnchecked(l, userID, acquire) ==
    IF ~acquire THEN [ok |-> TRUE, locks |-> l]
    ELSE [ok |-> TRUE, locks |-> l \cup {userID}]

\* A variant of TryAcquire that treats every command as locked
TryAcquireAlways(l, userID, acquire) ==
    IF userID \in l THEN [ok |-> FALSE, locks |-> l]
    ELSE [ok |-> TRUE, locks |-> l \cup {userID}]

\* CommandLock.TryAcquire: the value returned and the lock table left. The
\* body after the first return runs under l.mu, so a call is one step.
TryAcquire(l, userID, acquire) ==
    IF ~acquire THEN [ok |-> TRUE, locks |-> l]
    ELSE IF userID \in l THEN [ok |-> FALSE, locks |-> l]
    ELSE [ok |-> TRUE, locks |-> l \cup {userID}]

\* A variant of Unlock that leaves the lock table as it is
UnlockNothing(l, userID) == l

\* CommandLock.Unlock: delete(l.locks, userID)
Unlock(l, userID) == l \ {userID}

\* b.commandHandlers, in the order of registration: name, locked and
\* filter.Users (empty: every sender). "backup" is registered twice, locked
\* for user 1 and unlocked for everyone else.
CommandHandlers ==
    <<[name |-> "backup", locked |-> TRUE, users |-> {1}],
      [name |-> "backup", locked |-> FALSE, users |-> {}],
      [name |-> "deploy", locked |-> TRUE, users |-> {}],
      [name |-> "status", locked |-> FALSE, users |-> {}],
      [name |-> "@bot", locked |-> FALSE, users |-> {}]>>

\* The command names that arrive; "help" has no handler
CmdNames == {"backup", "deploy", "status", "help"}

\* Filter.matches, as far as it looks at the sender
Matches(h, userID) == h.users = {} \/ userID \in h.users

\* A variant of FindHandler that asks no filter
FindHandlerByName(cmdName, userID) ==
    LET hits == {k \in 1..Len(CommandHandlers) : CommandHandlers[k].name = cmdName}
    IN  IF hits = {} THEN 0
        ELSE CHOOSE k \in hits : \A j \in hits : k <= j

\* The index of the handler the loop of handleCommand stops at: the first
\* with the name of the command whose filter matches; 0 when there is none
FindHandler(cmdName, userID) ==
    LET hits == {k \in 1..Len(CommandHandlers) :
                    /\ CommandHandlers[k].name = cmdName
                    /\ Matches(CommandHandlers[k], userID)}
    IN  IF hits = {} THEN 0
        ELSE CHOOSE k \in hits : \A j \in hits : k <= j

\* b.messageHandlers, in the order of registration: filter.Users
MessageHandlers == <<[users |-> {}], [users |-> {1}]>>

\* unicode.IsSpace, for the runes of the texts that arrive
IsSpace(c) == c \in {" ", "\t", "\n", "\r"}

\* The place of the first rune from i on that is no space, Len(s) + 1 when
\* there is none
RECURSIVE FieldStart(_, _)
FieldStart(s, i) ==
    IF i <= Len(s) /\ IsSpace(SubSeq(s, i, i)) THEN FieldStart(s, i + 1) ELSE i

\* The place after the field that starts at i
RECURSIVE FieldEnd(_, _)
FieldEnd(s, i) ==
    IF i <= Len(s) /\ ~IsSpace(SubSeq(s, i, i)) THEN FieldEnd(s, i + 1) ELSE i

\* strings.Fields(text): whether there is a field, and the first one
FirstField(s) ==
    LET a == FieldStart(s, 1)
    IN  IF a > Len(s) THEN [ok |-> FALSE, val |-> ""]
        ELSE [ok |-> TRUE, val |-> SubSeq(s, a, FieldEnd(s, a) - 1)]

\* strings.TrimPrefix
TrimPrefix(s, prefix) ==
    IF HasPrefix(s, prefix) THEN SubSeq(s, Len(prefix) + 1, Len(s)) ELSE s

\* dispatch.go:126-129: the command name of the first field: the slash is
\* taken off, and the name is cut at its first "@" when that is not its
\* first rune (strings.Index counts from 0, and the test is idx > 0)
CmdName(field) ==
    LET cmdName == TrimPrefix(field, "/")
        idx == IndexByte(cmdName, "@") - 1
    IN  IF idx > 0 THEN SubSeq(cmdName, 1, idx) ELSE cmdName

\* What handleMessage did with a message: the message (its text, sender,
\* msg.Out and GroupedID), where it went ("none": nowhere, "album": to the
\* album collector, "command": to handleCommand, "message": to the message
\* handlers), the index of the command handler called (0: none), why none
\* was called, and the message handlers called
Routing(txt, userID, out, groupedID, kind, command, outcome, msgHandlers) ==
    [text |-> txt, userID |-> userID, out |-> out, groupedID |-> groupedID,
     kind |-> kind, command |-> command, outcome |-> outcome,
     messageHandlers |-> msgHandlers]

NoRouting == Routing("", 0, FALSE, 0, "none", 0, "none", {})

\* The errors handleCommand returns: nil, or the error its handler returned
Errors == {"nil", "error"}

\* A call of handleCommand: where it stands, its sender, whether its handler
\* is locked, and the error it has returned (nil until it returns)
Call(p, userID, locked) ==
    [pc |-> p, userID |-> userID, locked |-> locked, err |-> "nil"]

NoCall == Call("idle", 0, FALSE)

\* The places of a call that has ended
Ended == {"idle", "ignored", "dropped", "returned"}

\* The places of a call between TryAcquire and its return: the handler runs,
\* or the reply to a parameter error is sent
InProgress == {"handler", "error"}

LocksAtRest ==
    /\ locks = {}
    /\ calls = [g \in Goroutines |-> NoCall]
    /\ routed = NoRouting

---------------------------------------------------------------------------
(* The scope keys: scopeKeyString and parseScopeKey.                       *)

\* A CommandScope value: its type, its integer fields in the order of the
\* struct, and its Username
Scope(type, ids, username) == [type |-> type, ids |-> ids, username |-> username]

\* The nil CommandScope
Nil == Scope("nil", <<>>, "")

\* The scope types, each with the number of its integer fields
ScopeArity ==
    [ScopeDefault |-> 0, ScopeAllPrivate |-> 0, ScopeAllGroups |-> 0,
     ScopeAllGroupAdmins |-> 0, ScopeChat |-> 1, ScopeChannel |-> 2,
     ScopeChatAdmins |-> 1, ScopeChannelAdmins |-> 2, ScopeChatMember |-> 3,
     ScopeChatMemberChannel |-> 4, ScopeUser |-> 2]

NamedScopeTypes == {"ScopeUsername", "ScopeChannelUsername"}

\* The ":%d" of the formats of scopeKeyString, one for each field
RECURSIVE JoinInts(_)
JoinInts(ids) ==
    IF ids = <<>> THEN "" ELSE ":" \o FormatInt(Head(ids)) \o JoinInts(Tail(ids))

\* The switch of scopeKeyString
ScopeName(s) ==
    CASE s.type = "ScopeDefault" -> "default"
      [] s.type = "ScopeAllPrivate" -> "users"
      [] s.type = "ScopeAllGroups" -> "chats"
      [] s.type = "ScopeAllGroupAdmins" -> "chat_admins"
      [] s.type = "ScopeChat" -> "chat" \o JoinInts(s.ids)
      [] s.type = "ScopeChannel" -> "channel" \o JoinInts(s.ids)
      [] s.type = "ScopeChatAdmins" -> "chat_admins" \o JoinInts(s.ids)
      [] s.type = "ScopeChannelAdmins" -> "channel_admins" \o JoinInts(s.ids)
      [] s.type = "ScopeChatMember" -> "chat_member" \o JoinInts(s.ids)
      [] s.type = "ScopeChatMemberChannel" -> "channel_member" \o JoinInts(s.ids)
      [] s.type = "ScopeUser" -> "user" \o JoinInts(s.ids)
      [] s.type = "ScopeUsername" -> "user:@" \o s.username
      [] s.type = "ScopeChannelUsername" -> "channel:@" \o s.username
      [] OTHER -> "unknown"

scopeKeyString(scope, langCode) ==
    ScopeName(IF scope = Nil THEN Scope("ScopeDefault", <<>>, "") ELSE scope)
        \o "|" \o langCode

\* strings.LastIndexByte, counted from 1; 0 when c is not in s
LastIndexByte(s, c) ==
    LET hits == {i \in 1..Len(s) : SubSeq(s, i, i) = c}
    IN  IF hits = {} THEN 0 ELSE CHOOSE i \in hits : \A j \in hits : i >= j

\* extractLangCode
extractLangCode(key) ==
    LET i == LastIndexByte(key, "|")
    IN  IF i > 0 THEN SubSeq(key, i + 1, Len(key)) ELSE ""

\* fmt: the space a verb skips before its operand
RECURSIVE SkipSpace(_, _)
SkipSpace(s, i) ==
    IF i <= Len(s) /\ SubSeq(s, i, i) \in {" ", "\t"} THEN SkipSpace(s, i + 1) ELSE i

IsDigit(c) == c \in {Digit(d) : d \in 0..9}

DigitValue(c) == CHOOSE d \in 0..9 : Digit(d) = c

\* The place after the run of digits that starts at i
RECURSIVE DigitsEnd(_, _)
DigitsEnd(s, i) ==
    IF i <= Len(s) /\ IsDigit(SubSeq(s, i, i)) THEN DigitsEnd(s, i + 1) ELSE i

\* strconv.ParseInt of the digits of s from i up to j
RECURSIVE ParseDigits(_, _, _, _)
ParseDigits(s, i, j, acc) ==
    IF i >= j THEN acc
    ELSE ParseDigits(s, i + 1, j, acc * 10 + DigitValue(SubSeq(s, i, i)))

\* fmt: the verb %d read at place i: space is skipped, a sign is accepted,
\* and at least one digit must follow
ScanInt(s, i) ==
    LET a == SkipSpace(s, i)
        signed == a <= Len(s) /\ SubSeq(s, a, a) \in {"+", "-"}
        negative == a <= Len(s) /\ SubSeq(s, a, a) = "-"
        b == IF signed THEN a + 1 ELSE a
        e == DigitsEnd(s, b)
        n == ParseDigits(s, b, e, 0)
    IN  IF e = b THEN [ok |-> FALSE, val |-> 0, next |-> b]
        ELSE [ok |-> TRUE, val |-> IF negative THEN 0 - n ELSE n, next |-> e]

\* fmt.Sscanf with a format "prefix:%d:%d...": the operands read from place
\* i on, n verbs separated by ":"; the scan stops at the first verb or colon
\* that does not match, and what follows the last verb is not looked at
RECURSIVE ScanInts(_, _, _)
ScanInts(s, i, n) ==
    IF n = 0 THEN <<>>
    ELSE LET r == ScanInt(s, i)
         IN  IF ~r.ok THEN <<>>
             ELSE IF n > 1 /\ r.next <= Len(s) /\ SubSeq(s, r.next, r.next) = ":"
             THEN <<r.val>> \o ScanInts(s, r.next + 1, n - 1)
             ELSE <<r.val>>

\* The place after the run of runes that are not space that starts at i
RECURSIVE WordEnd(_, _)
WordEnd(s, i) ==
    IF i <= Len(s) /\ SubSeq(s, i, i) \notin {" ", "\t", "\n"}
    THEN WordEnd(s, i + 1) ELSE i

\* fmt: the verb %s read at place i: space is skipped, the end of the input
\* is an error, and the operand is the next word
ScanString(s, i) ==
    LET a == SkipSpace(s, i)
    IN  IF a > Len(s) THEN [ok |-> FALSE, val |-> ""]
        ELSE [ok |-> TRUE, val |-> SubSeq(s, a, WordEnd(s, a) - 1)]

\* What parseScopeKey returns
Parsed(scope, langCode) == [scope |-> scope, langCode |-> langCode]

\* A case of parseScopeKey with the format prefix ":%d"...: the scope of the
\* type when every field is read, (nil, "") otherwise
ParseFields(scopeStr, langCode, prefix, type) ==
    LET got == ScanInts(scopeStr, Len(prefix) + 1, ScopeArity[type])
    IN  IF Len(got) # ScopeArity[type] THEN Parsed(Nil, "")
        ELSE Parsed(Scope(type, got, ""), langCode)

\* A case of parseScopeKey with the format prefix "@%s"
ParseName(scopeStr, langCode, prefix, type) ==
    LET got == ScanString(scopeStr, Len(prefix) + 1)
    IN  IF ~got.ok THEN Parsed(Nil, "")
        ELSE Parsed(Scope(type, <<>>, got.val), langCode)

\* The switch of parseScopeKey, in its order
ParseScopeStr(scopeStr, langCode) ==
    CASE scopeStr = "default" -> Parsed(Scope("ScopeDefault", <<>>, ""), langCode)
      [] scopeStr = "users" -> Parsed(Scope("ScopeAllPrivate", <<>>, ""), langCode)
      [] scopeStr = "chats" -> Parsed(Scope("ScopeAllGroups", <<>>, ""), langCode)
      [] scopeStr = "chat_admins" ->
            Parsed(Scope("ScopeAllGroupAdmins", <<>>, ""), langCode)
      [] HasPrefix(scopeStr, "chat:") ->
            ParseFields(scopeStr, langCode, "chat:", "ScopeChat")
      [] HasPrefix(scopeStr, "channel_member:") ->
            ParseFields(scopeStr, langCode, "channel_member:", "ScopeChatMemberChannel")
      [] HasPrefix(scopeStr, "channel:@") ->
            ParseName(scopeStr, langCode, "channel:@", "ScopeChannelUsername")
      [] HasPrefix(scopeStr, "channel:") /\ ~HasPrefix(scopeStr, "channel:@") ->
            ParseFields(scopeStr, langCode, "channel:", "ScopeChannel")
      [] HasPrefix(scopeStr, "chat_admins:") ->
            ParseFields(scopeStr, langCode, "chat_admins:", "ScopeChatAdmins")
      [] HasPrefix(scopeStr, "channel_admins:") ->
            ParseFields(scopeStr, langCode, "channel_admins:", "ScopeChannelAdmins")
      [] HasPrefix(scopeStr, "chat_member:") ->
            ParseFields(scopeStr, langCode, "chat_member:", "ScopeChatMember")
      [] HasPrefix(scopeStr, "user:@") ->
            ParseName(scopeStr, langCode, "user:@", "ScopeUsername")
      [] HasPrefix(scopeStr, "user:") /\ ~HasPrefix(scopeStr, "user:@") ->
            ParseFields(scopeStr, langCode, "user:", "ScopeUser")
      [] OTHER -> Parsed(Nil, "")

\* parseScopeKey: strings.SplitN(key, "|", 2) cuts the key at its first "|"
parseScopeKey(key) ==
    LET i == IndexByte(key, "|")
    IN  IF i = 0 THEN Parsed(Nil, "")
        ELSE ParseScopeStr(SubSeq(key, 1, i - 1), SubSeq(key, i + 1, Len(key)))

\* A call of scopeKeyString followed by parseScopeKey: where it stands, the
\* arguments, the key and what the parse returned
\* A call of parseScopeKey, on a key that scopeKeyString made (from "scope")
\* or on a key read from the file of the saved scopes (from "file"): where
\* it stands, the arguments, the key and what the parse returned
KeyCall(p, from, scope, langCode, key, got) ==
    [pc |-> p, from |-> from, scope |-> scope, langCode |-> langCode,
     key |-> key, got |-> got]

KeyAtRest == keyCall = KeyCall("idle", "scope", Nil, "", "", Parsed(Nil, ""))

---------------------------------------------------------------------------
(* The life cycle of a Bot (Bot.Run), the registration of commands, and    *)
(* the operations that need a running bot.                                 *)

\* A variant of CompareAndSwap that stores without comparing
CompareAndSwapBlind(flag, old, new) == [swapped |-> TRUE, value |-> new]

\* atomic.Bool.CompareAndSwap: whether it swapped, and the value left
CompareAndSwap(flag, old, new) ==
    [swapped |-> flag = old, value |-> IF flag = old THEN new ELSE flag]

\* A variant of RunSteps that calls SyncCommands before the OnReady callback
RunStepsSyncFirst == <<"syncCommands", "onReady", "updates">>

\* The callback of client.Run after b.api is set (bot.go:287-299): the
\* OnReady callback, SyncCommands, gaps.Run
RunSteps == <<"onReady", "syncCommands", "updates">>

\* The step that follows step p
StepAfter(p) == RunSteps[(CHOOSE k \in 1..Len(RunSteps) : RunSteps[k] = p) + 1]

\* The places of a call of Run: "client" from the CompareAndSwap until the
\* callback of client.Run has set b.api, then the step of RunSteps that comes
\* next ("updates": gaps.Run runs); "already" is the return of
\* ErrAlreadyRunning, "returned" any other return
RunEnded == {"idle", "already", "returned"}

Connected == {"onReady", "syncCommands", "updates"}

RunActive == {"client"} \cup Connected

\* A CommandDef as CommandWithFilter stores it: name, whether the
\* description is not empty, scope and language code
Def(name, described, scope, langCode) ==
    [name |-> name, described |-> described, scope |-> scope, langCode |-> langCode]

\* The definition the program registers outside the OnReady callback
StartupDefs == {Def("start", TRUE, Nil, "")}

\* The definitions the OnReady callback registers: one with a description,
\* in a scope of its own, and one without
OnReadyDefs ==
    {Def("help", TRUE, Scope("ScopeAllPrivate", <<>>, ""), "en"),
     Def("debug", FALSE, Nil, "")}

CommandDefs == StartupDefs \cup OnReadyDefs

\* SyncCommands, the loop over the handlers: the keys of grouped
Grouped(hs) == {scopeKeyString(h.scope, h.langCode) : h \in {d \in hs : d.described}}

\* SyncCommands, the loop over the handlers: the commands of grouped, each
\* with its key
Menu(hs) ==
    {[key |-> scopeKeyString(h.scope, h.langCode), name |-> h.name] :
        h \in {d \in hs : d.described}}

\* The scopes ResetCommands resets when no scope is saved, as keys
FallbackKeys ==
    {scopeKeyString(Scope(type, <<>>, ""), "") :
        type \in {"ScopeDefault", "ScopeAllPrivate", "ScopeAllGroups",
                  "ScopeAllGroupAdmins"}}

\* The key of the scope and language code that the reset of a saved key
\* names; the keys that do not parse are skipped
ResetTargets(keys) ==
    {scopeKeyString(p.scope, p.langCode) :
        p \in {q \in {parseScopeKey(k) : k \in keys} : q.scope # Nil}}

\* The scopes ResetCommands resets, as keys: those of the file of the saved
\* scopes, and the four fallback scopes when there is none
ResetScopes(savedKeys) ==
    IF savedKeys = {} THEN FallbackKeys ELSE ResetTargets(savedKeys)

\* ResetCommands once b.api is set: the keys left with commands at Telegram,
\* when it resets the scopes of targets and the calls of
\* BotsResetBotCommands that succeed are those of resetOK. The file of the
\* saved scopes is read and never written.
ResetCommands(targets, serverKeys, resetOK) == serverKeys \ (targets \cap resetOK)

\* SyncCommands once b.api is set: the file and the keys with commands at
\* Telegram that it leaves, when the calls of BotsSetBotCommands that succeed
\* are those of setOK and the file is written when saveOK
SyncCommands(grouped, savedKeys, targets, serverKeys, resetOK, setOK, saveOK) ==
    IF grouped = {} THEN [saved |-> savedKeys, server |-> serverKeys]
    ELSE LET scopeKeys == grouped \cap setOK
         IN  [saved |-> IF saveOK THEN scopeKeys ELSE savedKeys,
              server |-> ResetCommands(targets, serverKeys, resetOK) \cup scopeKeys]

\* What the SyncCommands of Run read and sent
Snapshot(taken, hs) == [taken |-> taken, handlers |-> hs, menu |-> Menu(hs)]

NoSnapshot == Snapshot(FALSE, {})

\* The operations that return ErrBotNotRunning when b.api is nil
Operations ==
    {"SyncCommands", "ResetCommands", "SetCommandsForScope", "UpdateBotInfo",
     "SetProfilePhoto", "SetProfilePhotoFromBytes", "DeleteProfilePhotos"}

\* A call of an operation: SyncCommands, ResetCommands or one of the others,
\* the error returned, whether it called the API, and whether a Run was
\* connected when it was made
Op(name, err, apiCalls, wasRunning) ==
    [op |-> IF name \in {"none", "SyncCommands", "ResetCommands"} THEN name
            ELSE "operation",
     err |-> err, apiCalls |-> apiCalls, wasRunning |-> wasRunning]

NoOp == Op("none", "nil", FALSE, FALSE)

\* The bot is running: a call of Run has connected and has not returned
BotRunning == \E g \in Goroutines : runs[g] \in Connected

RunAtRest ==
    /\ running = FALSE
    /\ api = "nil"
    /\ runs = [g \in Goroutines |-> "idle"]
    /\ handlers = {}
    /\ readyDefs = {}
    /\ snapshot = NoSnapshot
    /\ updates = 0
    /\ lastOp = NoOp
    /\ saved = {}
    /\ server = {}

---------------------------------------------------------------------------
(* The album collector (albumCollector: add, flush, stop) and the part of  *)
(* Bot.handleMessage that feeds it. The map c.entities is left out: it     *)
(* holds the entities that came with the first message of each album.      *)

\* config.AlbumTimeout, in ticks of the clock
AlbumTimeout == 2

\* msg.GroupedID: 0 for a message that is not part of an album
GroupedIDs == 0..MaxGroup

Groups == 1..MaxGroup

\* A message: its ID, its GroupedID, msg.Out, whether its text starts with
\* "/", and (history) the time at which handleMessage took it
Message(id, groupedID, out, command, at) ==
    [id |-> id, groupedID |-> groupedID, out |-> out, command |-> command, at |-> at]

\* A variant of Collects that collects nothing
CollectsNothing(groupedID) == FALSE

\* albumCollector.add, its first test: whether the message is collected
Collects(groupedID) == groupedID # 0

\* A timer made by time.AfterFunc: the group its function flushes, the time
\* at which it is due, and its state: "pending", "stopped" (Stop came before
\* it fired), "fired" (its function has been started and has not taken c.mu
\* yet), "done" (flush has run)
Timer(group, due, state) == [group |-> group, due |-> due, state |-> state]

\* timer.Stop(): a pending timer is stopped; one that has fired is not
StopTimer(made, t) ==
    IF t # 0 /\ made[t].state = "pending"
    THEN [made EXCEPT ![t].state = "stopped"]
    ELSE made

\* albumCollector.add for a message that is collected (the part under c.mu):
\* the message is appended to its album, the timer of the group in c.timers
\* is stopped, and a new timer is made and put in c.timers
Add(a, ts, id, groupID, at) ==
    LET stopped == StopTimer(ts.made, ts.byGroup[groupID])
    IN  [albums |-> [a EXCEPT ![groupID] = Append(@, id)],
         timers |-> [made |-> Append(stopped, Timer(groupID, at + AlbumTimeout, "pending")),
                     byGroup |-> [ts.byGroup EXCEPT ![groupID] = Len(stopped) + 1]]]

\* albumCollector.stop: the timers of c.timers are stopped and the three
\* maps are made anew
StopAll(a, ts) ==
    [albums |-> [g \in Groups |-> <<>>],
     timers |-> [made |-> [t \in 1..Len(ts.made) |->
                             IF \E g \in Groups : ts.byGroup[g] = t
                             THEN StopTimer(ts.made, t)[t]
                             ELSE ts.made[t]],
                 byGroup |-> [g \in Groups |-> 0]]]

\* slices.SortFunc(messages, cmp.Compare(a.ID, b.ID)): the ids in order
RECURSIVE SortByID(_)
SortByID(ids) ==
    IF ids = <<>> THEN <<>>
    ELSE LET least == CHOOSE k \in 1..Len(ids) : \A j \in 1..Len(ids) : ids[k] <= ids[j]
         IN  <<ids[least]>> \o SortByID(SubSeq(ids, 1, least - 1)
                                         \o SubSeq(ids, least + 1, Len(ids)))

\* A call of the album callback (Bot.handleAlbum): the group, the ids of the
\* messages and (history) the time of the call
Delivery(group, ids, at) == [group |-> group, ids |-> ids, at |-> at]

AlbumAtRest ==
    /\ albums = [g \in Groups |-> <<>>]
    /\ timers = [made |-> <<>>, byGroup |-> [g \in Groups |-> 0]]
    /\ now = 0
    /\ messages = <<>>
    /\ deliveries = <<>>
    /\ handled = {}

---------------------------------------------------------------------------
(* The flood-wait middleware (floodWaitMiddleware.Handle).                 *)

\* What an invocation returns: nil, a FLOOD_WAIT error, any other error
Answers == {"nil", "FLOOD_WAIT", "other"}

\* A call of the function Handle returns: where it stands ("invoke": at
\* next.Invoke; "wait": inside tgerr.FloodWait), the error of the last
\* invocation, the error returned, and the FLOOD_WAIT answers yet to come
FloodCall(p, last, err, left) == [pc |-> p, last |-> last, err |-> err, left |-> left]

NoFloodCall == FloodCall("idle", "nil", "nil", 0)

\* A variant of AfterWait that returns the error after a completed wait
AfterWaitReturns(call, waited, waitErr) ==
    [call EXCEPT !.pc = "returned", !.err = waitErr]

\* part_006:19-22 and 24, for an error that is not FLOOD_WAIT: nil is
\* returned for nil; tgerr.FloodWait returns (false, err) at once for any
\* other error, which is returned; for FLOOD_WAIT it starts to wait
AfterInvoke(call, err) ==
    IF err = "nil" THEN [call EXCEPT !.pc = "returned", !.last = err, !.err = "nil"]
    ELSE IF err = "FLOOD_WAIT"
    THEN [call EXCEPT !.pc = "wait", !.last = err, !.left = @ - 1]
    ELSE [call EXCEPT !.pc = "returned", !.last = err, !.err = err]

\* part_006:24-27: tgerr.FloodWait returns (true, err) when the wait is
\* over and (false, ctx.Err()) when ctx is done first; the loop goes on in
\* the first case and waitErr is returned in the second
AfterWait(call, waited, waitErr) ==
    IF ~waited THEN [call EXCEPT !.pc = "returned", !.err = waitErr]
    ELSE [call EXCEPT !.pc = "invoke"]

FloodAtRest == flood = [g \in Goroutines |-> NoFloodCall]

\* Config, as far as Run reads it: whether SyncCommands is set
Configs == [SyncCommands : BOOLEAN]

BotAtRest ==
    /\ LocksAtRest
    /\ RunAtRest
    /\ config = [SyncCommands |-> FALSE]
    /\ AlbumAtRest
    /\ FloodAtRest
    /\ KeyAtRest

---------------------------------------------------------------------------
(* The inputs explored. *)

RECURSIVE StringsOfLen(_, _)
StringsOfLen(alphabet, n) ==
    IF n = 0 THEN {""}
    ELSE {c \o s : c \in alphabet, s \in StringsOfLen(alphabet, n - 1)}

StringsUpTo(alphabet, n) == UNION {StringsOfLen(alphabet, k) : k \in 0..n}

SeqsUpTo(S, n) == UNION {[1..k -> S] : k \in 0..n}

\* An entity of a kind, with a payload where the kind has one
Shape(kind) ==
    CASE kind = "Pre" -> Entity(kind, 0, 0, "go", FALSE, "", 0)
      [] kind = "TextURL" -> Entity(kind, 0, 0, "", FALSE, "u?a&b", 0)
      [] kind = "MentionName" -> Entity(kind, 0, 0, "", FALSE, "", 42)
      [] OTHER -> Entity(kind, 0, 0, "", FALSE, "", 0)

\* The payload variants: a Pre without language, a collapsed Blockquote
Shapes(kinds) ==
    {Shape(k) : k \in kinds}
    \cup (IF "Pre" \in kinds THEN {Entity("Pre", 0, 0, "", FALSE, "", 0)} ELSE {})
    \cup (IF "Blockquote" \in kinds
          THEN {Entity("Blockquote", 0, 0, "", TRUE, "", 0)} ELSE {})

Place(shape, offset, length) == [shape EXCEPT !.offset = offset, !.length = length]

\* Every offset and length from -1 to one past the text
AnyRange(txt, shapes) ==
    {Place(sh, o, l) : sh \in shapes,
                       o \in (0 - 1)..(Len(txt) + 1),
                       l \in (0 - 1)..(Len(txt) + 1)}

\* The state at the call
Fresh ==
    /\ pc = "start"
    /\ infos = <<>>
    /\ events = <<>>
    /\ evIdx = 1
    /\ openStack = <<>>
    /\ alreadyClosed = {}
    /\ lastPos = 0
    /\ result = ""
    /\ tagLog = <<>>

\* The general specification: up to MaxEnt entities, of the kinds that take
\* different paths through the classification, with any offset and length,
\* over short texts with a plain rune, a rune the trim removes and a rune
\* that is escaped.
Alphabet == {"a", " ", "<"}

GeneralKinds == {"Bold", "Pre", "Blockquote", "Mention", "CustomEmoji", "Hashtag"}

Init ==
    /\ text \in StringsUpTo(Alphabet, MaxLen)
    /\ entities \in SeqsUpTo(AnyRange(text, {Shape(k) : k \in GeneralKinds}), MaxEnt)
    /\ Fresh
    /\ BotAtRest

\* The specification of the kinds: no entity or one entity, of every kind and
\* payload variant, with any offset and length, over texts that also hold a
\* tab.
KindAlphabet == {"a", " ", "\t", "<"}

InitKinds ==
    /\ text \in StringsUpTo(KindAlphabet, KindLen)
    /\ entities \in {<<>>} \cup {<<e>> : e \in AnyRange(text, Shapes(Kinds))}
    /\ Fresh
    /\ BotAtRest

\* The specification of nesting: up to MaxSpans entities with ranges inside the
\* text and nothing to trim, the k-th of the k-th kind below; and the inputs of
\* the tests of entities_test.go that state an exact output.
SlotKinds == <<"Bold", "Italic", "Underline", "Strike", "Code", "Spoiler">>

NestText(n) == SubSeq("abcdefghijkl", 1, n)

ValidRanges(n) == {r \in (0..n) \X (1..n) : r[1] + r[2] <= n}

\* The entities with the ranges rs, in this order
NestEntities(rs) ==
    [k \in 1..Len(rs) |->
        Place(Shape(SlotKinds[((k - 1) % Len(SlotKinds)) + 1]), rs[k][1], rs[k][2])]

TestInputs ==
    {[text |-> "Hello World",                       \* TestEntitiesToHTML_Overlapping
      entities |-> <<Place(Shape("Bold"), 0, 8), Place(Shape("Italic"), 3, 8)>>],
     [text |-> "all bold some italic",              \* TestEntitiesToHTML_Nested
      entities |-> <<Place(Shape("Bold"), 0, 20), Place(Shape("Italic"), 9, 4)>>],
     [text |-> "Hello bold text and more",          \* ..._TrailingWhitespaceTrimming
      entities |-> <<Place(Shape("Bold"), 6, 10)>>],
     [text |-> "bolditalic",                        \* ..._AdjacentEntities
      entities |-> <<Place(Shape("Bold"), 0, 4), Place(Shape("Italic"), 4, 6)>>]}

\* The entities explored with a text: those of its test when it is the text
\* of a test, and else up to MaxSpans entities with any ranges inside it
InitNest ==
    /\ text \in {NestText(n) : n \in 0..NestLen} \cup {t.text : t \in TestInputs}
    /\ IF \E t \in TestInputs : t.text = text
       THEN \E t \in TestInputs : t.text = text /\ entities = t.entities
       ELSE \E m \in 0..MaxSpans :
               \E rs \in [1..m -> ValidRanges(Len(text))] :
                   entities = NestEntities(rs)
    /\ Fresh
    /\ BotAtRest

\* The specification of the wide runes: one Bold entity over texts that hold
\* a rune above U+FFFF, which is one element of []rune(text) and two UTF-16
\* code units; the offset and the length run over the code units of the text.
AstralRune == "W"

WideAlphabet == {"a", AstralRune}

InitWide ==
    /\ text \in StringsUpTo(WideAlphabet, WideLen)
    /\ entities \in {<<Place(Shape("Bold"), o, l)>> :
                        o \in 0..(2 * Len(text)), l \in 0..(2 * Len(text))}
    /\ Fresh
    /\ BotAtRest

\* The specification of the blocks: up to QuoteEnt entities of the kinds Pre
\* and Blockquote, with any offset and length, over texts that hold a line
\* break and a rune that is escaped.
QuoteAlphabet == {"a", "\n", "<"}

QuoteKinds == {"Pre", "Blockquote"}

InitQuote ==
    /\ text \in StringsUpTo(QuoteAlphabet, QuoteLen)
    /\ entities \in SeqsUpTo(AnyRange(text, {Shape(k) : k \in QuoteKinds}), QuoteEnt)
    /\ Fresh
    /\ BotAtRest

---------------------------------------------------------------------------
(* The steps of one call. *)

\* Lines 33-157: the early return, the classification loop, the second early
\* return.
Classify ==
    /\ pc = "start"
    /\ LET c == ClassifyAll(text, entities)
       IN  IF Len(entities) = 0
           THEN /\ pc' = EarlyReturn(text).pc
                /\ result' = EarlyReturn(text).result
                /\ infos' = infos
           ELSE IF c.panic
           THEN /\ pc' = "panic"
                /\ result' = result
                /\ infos' = c.infos
           ELSE IF Len(c.infos) = 0
           THEN /\ pc' = EarlyReturn(text).pc
                /\ result' = EarlyReturn(text).result
                /\ infos' = c.infos
           ELSE /\ pc' = "classified"
                /\ result' = result
                /\ infos' = c.infos
    /\ UNCHANGED <<text, entities, events, evIdx, openStack, alreadyClosed,
                   lastPos, tagLog>>
    /\ UNCHANGED botVars

\* Lines 159-205: the events, sorted
BuildEvents ==
    /\ pc = "classified"
    /\ events' = SortEvents(MakeEvents(infos))
    /\ evIdx' = 1
    /\ pc' = "sweep"
    /\ UNCHANGED <<text, entities, infos, openStack, alreadyClosed, lastPos,
                   result, tagLog>>
    /\ UNCHANGED botVars

\* Lines 226-293: one iteration of the loop over the events
ProcessEvent ==
    /\ pc = "sweep"
    /\ evIdx <= Len(events)
    /\ \E mode \in SliceModes(text, lastPos, events[evIdx].pos) :
         LET st == StepEvent(text, events,
                             SweepState(pc, openStack, alreadyClosed, lastPos,
                                        result, tagLog),
                             events[evIdx], mode)
         IN  /\ pc' = IF st.pc = "panic" THEN "panic"
                      ELSE IF evIdx = Len(events) THEN "flush" ELSE "sweep"
             /\ openStack' = st.openStack
             /\ alreadyClosed' = st.alreadyClosed
             /\ lastPos' = st.lastPos
             /\ result' = st.result
             /\ tagLog' = st.tagLog
    /\ evIdx' = evIdx + 1
    /\ UNCHANGED <<text, entities, infos, events>>
    /\ UNCHANGED botVars

\* Lines 295-303: the last segment, and the return
FinalFlush ==
    /\ pc = "flush"
    /\ LET st == FinalStep(text, SweepState(pc, openStack, alreadyClosed, lastPos,
                                            result, tagLog))
       IN  /\ pc' = st.pc
           /\ result' = st.result
    /\ UNCHANGED <<text, entities, infos, events, evIdx, openStack, alreadyClosed,
                   lastPos, tagLog>>
    /\ UNCHANGED botVars

Next == Classify \/ BuildEvents \/ ProcessEvent \/ FinalFlush

Spec == Init /\ [][Next]_vars

SpecKinds == InitKinds /\ [][Next]_vars

SpecNest == InitNest /\ [][Next]_vars

SpecWide == InitWide /\ [][Next]_vars

SpecQuote == InitQuote /\ [][Next]_vars

---------------------------------------------------------------------------
(* The dispatch of commands: the goroutines that handle updates call       *)
(* handleCommand at the same time.                                         *)

\* EntitiesToHTML is not called
RenderAtRest ==
    /\ text = ""
    /\ entities = <<>>
    /\ Fresh

InitBot ==
    /\ RenderAtRest
    /\ BotAtRest

\* dispatch.go:143-174, up to the call of the handler, for a command name
\* and a sender: the handler is looked up; with no handler the call returns;
\* with a sender id other than 0 the lock is tried and the call returns when
\* it is refused; the parameters are parsed and the handler, or the reply to
\* a parameter error, starts.
CommandStep(g, userID, cmdName, paramsOK) ==
    LET idx == FindHandler(cmdName, userID)
    IN  IF idx = 0
        THEN /\ calls' = [calls EXCEPT ![g] = Call("ignored", userID, FALSE)]
             /\ locks' = locks
        ELSE LET h == CommandHandlers[idx]
                 r == IF userID # 0 THEN TryAcquire(locks, userID, h.locked)
                      ELSE [ok |-> TRUE, locks |-> locks]
             IN  IF ~r.ok
                 THEN /\ calls' = [calls EXCEPT
                                      ![g] = Call("dropped", userID, h.locked)]
                      /\ locks' = locks
                 ELSE /\ calls' = [calls EXCEPT
                                      ![g] = Call(IF paramsOK THEN "handler"
                                                  ELSE "error",
                                                  userID, h.locked)]
                      /\ locks' = r.locks

\* dispatch.go:119-174, up to the call of the handler, for a command name
\* that has been read from the text
HandleCommand(g) ==
    /\ calls[g].pc \in Ended
    /\ \E userID \in UserIDs, cmdName \in CmdNames, paramsOK \in BOOLEAN :
          CommandStep(g, userID, cmdName, paramsOK)
    /\ UNCHANGED routed
    /\ UNCHANGED <<renderVars, runVars, albumVars, flood, keyCall>>

\* dispatch.go:161, 170, 174: the reply to a parameter error is sent and nil
\* is returned, or the handler returns and its error is returned; the
\* deferred Unlock runs when the command is locked and the sender id is not 0
Return(g) ==
    /\ calls[g].pc \in InProgress
    /\ \E err \in Errors :
          /\ calls[g].pc = "error" => err = "nil"
          /\ calls' = [calls EXCEPT ![g].pc = "returned", ![g].err = err]
    /\ locks' = IF calls[g].userID # 0 /\ calls[g].locked
                THEN Unlock(locks, calls[g].userID)
                ELSE locks
    /\ UNCHANGED routed
    /\ UNCHANGED <<renderVars, runVars, albumVars, flood, keyCall>>

NextBot == \E g \in Goroutines : HandleCommand(g) \/ Return(g)

SpecBot == InitBot /\ [][NextBot]_vars

\* The dispatch when every handler and every reply returns
SpecBotReturns ==
    /\ InitBot
    /\ [][NextBot]_vars
    /\ \A g \in Goroutines : WF_vars(Return(g))

---------------------------------------------------------------------------
(* The routing of messages: the goroutines that handle updates call        *)
(* handleMessage with messages of every kind; the handlers of commands     *)
(* return later, the message handlers within the call.                     *)

\* The texts that arrive: no command, a text with a space before the slash,
\* a bare slash, commands with and without a bot name and parameters, a
\* command without a handler, and a text whose first field starts with "/@"
Texts ==
    {"hi", " /status", "/", "/backup@bot x", "/deploy\t1", "/status", "/help", "/@bot"}

\* A message that arrives: its text, ctx.SenderID(), msg.Out and GroupedID
Arrival(txt, userID, out, groupedID) ==
    [text |-> txt, userID |-> userID, out |-> out, groupedID |-> groupedID]

\* The messages that arrive: every text from every sender as an incoming
\* message outside an album, and a command as an outgoing message and as a
\* message of an album
RouteArrivals ==
    {Arrival(txt, userID, FALSE, 0) : txt \in Texts, userID \in UserIDs}
    \cup {Arrival("/status", 1, TRUE, 0), Arrival("/status", 1, FALSE, MaxGroup)}

InitRoute ==
    /\ RenderAtRest
    /\ BotAtRest

\* The place a call of handleCommand has come to, as an outcome of the
\* routing
Outcome(p) ==
    CASE p = "handler" -> "called"
      [] p = "error" -> "params"
      [] p = "dropped" -> "dropped"
      [] OTHER -> "nohandler"

\* dispatch.go:56-93, Bot.handleMessage, with handleCommand up to the call
\* of the handler: an outgoing message is dropped; a message that add
\* collects is left to the collector; a text that starts with "/" goes to
\* handleCommand and nowhere else; any other text goes to every message
\* handler whose filter matches
Dispatch(g) ==
    /\ calls[g].pc \in Ended
    /\ \E msg \in RouteArrivals :
          IF msg.out
          THEN /\ routed' = Routing(msg.text, msg.userID, msg.out, msg.groupedID,
                                    "none", 0, "none", {})
               /\ UNCHANGED <<locks, calls, albums, timers>>
          ELSE IF Collects(msg.groupedID)
          THEN /\ albums[msg.groupedID] = <<>>
               /\ \E added \in {Add(albums, timers, 1, msg.groupedID, now)} :
                     /\ albums' = added.albums
                     /\ timers' = added.timers
               /\ routed' = Routing(msg.text, msg.userID, msg.out, msg.groupedID,
                                    "album", 0, "none", {})
               /\ UNCHANGED <<locks, calls>>
          ELSE IF HasPrefix(msg.text, "/")
          THEN \E field \in {FirstField(msg.text)} :
                   IF ~field.ok
                   THEN /\ routed' = Routing(msg.text, msg.userID, msg.out,
                                             msg.groupedID, "command", 0, "nofield", {})
                        /\ UNCHANGED <<locks, calls, albums, timers>>
                   ELSE \E cmdName \in {CmdName(field.val)}, paramsOK \in BOOLEAN :
                          /\ CommandStep(g, msg.userID, cmdName, paramsOK)
                          /\ routed' = Routing(msg.text, msg.userID, msg.out,
                                               msg.groupedID, "command",
                                               IF calls'[g].pc = "handler"
                                               THEN FindHandler(cmdName, msg.userID)
                                               ELSE 0,
                                               Outcome(calls'[g].pc), {})
                          /\ UNCHANGED <<albums, timers>>
          ELSE /\ routed' = Routing(msg.text, msg.userID, msg.out, msg.groupedID,
                                    "message", 0, "none",
                                    {k \in 1..Len(MessageHandlers) :
                                        Matches(MessageHandlers[k], msg.userID)})
               /\ UNCHANGED <<locks, calls, albums, timers>>
    /\ UNCHANGED <<now, messages, deliveries, handled>>
    /\ UNCHANGED <<renderVars, runVars, flood, keyCall>>

NextRoute == \E g \in Goroutines : Dispatch(g) \/ Return(g)

SpecRoute == InitRoute /\ [][NextRoute]_vars

---------------------------------------------------------------------------
(* The life cycle: goroutines call Run, commands are registered, and the   *)
(* operations are called at any time.                                      *)

InitRun ==
    /\ RenderAtRest
    /\ LocksAtRest
    /\ RunAtRest
    /\ config \in Configs
    /\ AlbumAtRest
    /\ FloodAtRest
    /\ KeyAtRest

\* bot.go:249-254: the CompareAndSwap of Run; the call returns
\* ErrAlreadyRunning when it does not swap, and calls client.Run when it does
RunCall(g) ==
    /\ runs[g] \in RunEnded
    /\ LET cas == CompareAndSwap(running, FALSE, TRUE)
       IN  /\ running' = cas.value
           /\ IF cas.swapped
              THEN /\ runs' = [runs EXCEPT ![g] = "client"]
                   /\ readyDefs' = {}
                   /\ snapshot' = NoSnapshot
                   /\ updates' = 0
              ELSE /\ runs' = [runs EXCEPT ![g] = "already"]
                   /\ UNCHANGED <<readyDefs, snapshot, updates>>
    /\ UNCHANGED <<api, handlers, lastOp, config, saved, server>>
    /\ UNCHANGED <<renderVars, lockVars, albumVars, flood, keyCall>>

\* bot.go:255-273: the callback of client.Run up to b.api = tg.NewClient
RunConnect(g) ==
    /\ runs[g] = "client"
    /\ runs' = [runs EXCEPT ![g] = RunSteps[1]]
    /\ api' = "set"
    /\ UNCHANGED <<running, handlers, readyDefs, snapshot, updates, lastOp, config,
                   saved, server>>
    /\ UNCHANGED <<renderVars, lockVars, albumVars, flood, keyCall>>

\* bot.go:287-289: the OnReady callback runs and returns; it registers the
\* definitions defs (none when there is no callback)
RunOnReady(g) ==
    /\ runs[g] = "onReady"
    /\ \E defs \in {{}, OnReadyDefs} :
          /\ handlers' = handlers \cup defs
          /\ readyDefs' = defs
    /\ runs' = [runs EXCEPT ![g] = StepAfter(runs[g])]
    /\ UNCHANGED <<running, api, snapshot, updates, lastOp, config, saved, server>>
    /\ UNCHANGED <<renderVars, lockVars, albumVars, flood, keyCall>>

\* bot.go:291-295: with config.SyncCommands, SyncCommands runs and returns
\* (an error is logged); then gaps.Run starts
RunSyncCommands(g) ==
    /\ runs[g] = "syncCommands"
    /\ IF config.SyncCommands
       THEN \E grouped \in {Grouped(handlers)}, targets \in {ResetScopes(saved)} :
              \E resetOK \in SUBSET (targets \cap server), setOK \in SUBSET grouped,
                 saveOK \in BOOLEAN :
                \E out \in {SyncCommands(grouped, saved, targets, server, resetOK,
                                          setOK, saveOK)} :
                    /\ saved' = out.saved
                    /\ server' = out.server
                    /\ snapshot' = Snapshot(TRUE, handlers)
       ELSE UNCHANGED <<saved, server, snapshot>>
    /\ runs' = [runs EXCEPT ![g] = StepAfter(runs[g])]
    /\ UNCHANGED <<running, api, handlers, readyDefs, updates, lastOp, config>>
    /\ UNCHANGED <<renderVars, lockVars, albumVars, flood, keyCall>>

\* bot.go:299: gaps.Run hands an update to the dispatcher
ProcessUpdate(g) ==
    /\ runs[g] = "updates"
    /\ updates < MaxUpdates
    /\ updates' = updates + 1
    /\ UNCHANGED <<running, api, runs, handlers, readyDefs, snapshot, lastOp, config,
                   saved, server>>
    /\ UNCHANGED <<renderVars, lockVars, albumVars, flood, keyCall>>

\* bot.go:253, 255-270, 299: client.Run returns, because the connection or
\* the authorization failed or because gaps.Run returned, and the deferred
\* b.albumCollector.stop() and b.running.Store(false) run. b.api is left as
\* it is.
RunReturn(g) ==
    /\ runs[g] \in {"client", "updates"}
    /\ runs' = [runs EXCEPT ![g] = "returned"]
    /\ running' = FALSE
    /\ albums' = StopAll(albums, timers).albums
    /\ timers' = StopAll(albums, timers).timers
    /\ UNCHANGED <<api, handlers, readyDefs, snapshot, updates, lastOp, config,
                   saved, server>>
    /\ UNCHANGED <<renderVars, lockVars, now, messages, deliveries, handled, flood,
                   keyCall>>

\* bot.go:182-196: CommandWithFilter, called by the program outside OnReady
Command(def) ==
    /\ def \notin handlers
    /\ handlers' = handlers \cup {def}
    /\ UNCHANGED <<running, api, runs, readyDefs, snapshot, updates, lastOp, config,
                   saved, server>>
    /\ UNCHANGED <<renderVars, lockVars, albumVars, flood, keyCall>>

\* SyncCommands, called by the program
CallSyncCommands ==
    /\ IF api = "nil"
       THEN /\ lastOp' = Op("SyncCommands", "ErrBotNotRunning", FALSE, BotRunning)
            /\ UNCHANGED <<saved, server>>
       ELSE \E grouped \in {Grouped(handlers)}, targets \in {ResetScopes(saved)} :
              \E resetOK \in SUBSET (targets \cap server), setOK \in SUBSET grouped,
                 saveOK \in BOOLEAN :
                \E out \in {SyncCommands(grouped, saved, targets, server, resetOK,
                                          setOK, saveOK)} :
                    /\ saved' = out.saved
                    /\ server' = out.server
                    /\ lastOp' = Op("SyncCommands", "nil", grouped # {}, BotRunning)
    /\ UNCHANGED <<running, api, runs, handlers, readyDefs, snapshot, updates, config>>
    /\ UNCHANGED <<renderVars, lockVars, albumVars, flood, keyCall>>

\* ResetCommands, called by the program
CallResetCommands ==
    /\ IF api = "nil"
       THEN /\ lastOp' = Op("ResetCommands", "ErrBotNotRunning", FALSE, BotRunning)
            /\ UNCHANGED server
       ELSE \E targets \in {ResetScopes(saved)} :
              \E resetOK \in SUBSET (targets \cap server) :
                /\ server' = ResetCommands(targets, server, resetOK)
                /\ lastOp' = Op("ResetCommands", "nil", TRUE, BotRunning)
    /\ UNCHANGED <<running, api, runs, handlers, readyDefs, snapshot, updates, config,
                   saved>>
    /\ UNCHANGED <<renderVars, lockVars, albumVars, flood, keyCall>>

\* SetCommandsForScope, UpdateBotInfo, SetProfilePhoto,
\* SetProfilePhotoFromBytes, DeleteProfilePhotos, called by the program: with
\* b.api set each goes on to its API calls and returns what they return
\* (SetProfilePhoto first downloads the photo, and returns without an API
\* call when the download fails)
CallOperation(op) ==
    /\ IF api = "nil"
       THEN lastOp' = Op(op, "ErrBotNotRunning", FALSE, BotRunning)
       ELSE \E err \in {"nil", "error"}, downloaded \in BOOLEAN :
                /\ ~downloaded => (op = "SetProfilePhoto" /\ err = "error")
                /\ lastOp' = Op(op, err, downloaded, BotRunning)
    /\ UNCHANGED <<running, api, runs, handlers, readyDefs, snapshot, updates, config,
                   saved, server>>
    /\ UNCHANGED <<renderVars, lockVars, albumVars, flood, keyCall>>

NextRun ==
    \/ \E g \in Goroutines :
          \/ RunCall(g)
          \/ RunConnect(g)
          \/ RunOnReady(g)
          \/ RunSyncCommands(g)
          \/ ProcessUpdate(g)
          \/ RunReturn(g)
    \/ \E def \in StartupDefs : Command(def)
    \/ CallSyncCommands
    \/ CallResetCommands
    \/ \E op \in Operations \ {"SyncCommands", "ResetCommands"} : CallOperation(op)

SpecRun == InitRun /\ [][NextRun]_vars

---------------------------------------------------------------------------
(* The albums: messages arrive, timers fire, flushes run, the clock ticks. *)
(* A timer fires when it is due, and its flush runs, before the clock      *)
(* moves on; a message may arrive between the two.                         *)

InitAlbum ==
    /\ RenderAtRest
    /\ BotAtRest

\* The messages that arrive: an outgoing message of an album, and incoming
\* messages of every GroupedID, with and without a command
Arrivals ==
    {Message(0, groupedID, FALSE, command, 0) :
        groupedID \in GroupedIDs, command \in BOOLEAN}
    \cup {Message(0, MaxGroup, TRUE, FALSE, 0)}

\* dispatch.go:56-93, Bot.handleMessage: an outgoing message is dropped; a
\* message that add collects is left to the collector; any other message
\* goes to handleCommand when its text starts with "/" and to the message
\* handlers otherwise
HandleMessage ==
    /\ Len(messages) < MaxMessages
    /\ \E arrival \in Arrivals :
          LET msg == [arrival EXCEPT !.id = Len(messages) + 1, !.at = now]
          IN  /\ messages' = Append(messages, msg)
              /\ IF msg.out
                 THEN UNCHANGED <<albums, timers, handled>>
                 ELSE IF Collects(msg.groupedID)
                 THEN LET out == Add(albums, timers, msg.id, msg.groupedID, now)
                      IN  /\ albums' = out.albums
                          /\ timers' = out.timers
                          /\ handled' = handled
                 ELSE /\ handled' = handled \cup
                            {[id |-> msg.id,
                              by |-> IF msg.command THEN "command" ELSE "message"]}
                      /\ UNCHANGED <<albums, timers>>
    /\ UNCHANGED <<now, deliveries>>
    /\ UNCHANGED <<renderVars, lockVars, runVars, flood, keyCall>>

\* The runtime starts the function of a timer that is due: c.flush is
\* called and has yet to take c.mu
TimerFires(t) ==
    /\ timers.made[t].state = "pending"
    /\ timers.made[t].due <= now
    /\ timers' = [timers EXCEPT !.made[t].state = "fired"]
    /\ UNCHANGED <<albums, now, messages, deliveries, handled>>
    /\ UNCHANGED <<renderVars, lockVars, runVars, flood, keyCall>>

\* albumCollector.flush: under c.mu the album of the group is taken and the
\* entries of the group are deleted from the maps; then the messages, when
\* there are any, are sorted and handed to the callback
Flush(t) ==
    /\ timers.made[t].state = "fired"
    /\ LET groupID == timers.made[t].group
           msgs == albums[groupID]
       IN  /\ albums' = [albums EXCEPT ![groupID] = <<>>]
           /\ timers' = [made |-> [timers.made EXCEPT ![t].state = "done"],
                         byGroup |-> [timers.byGroup EXCEPT ![groupID] = 0]]
           /\ deliveries' = IF msgs = <<>> THEN deliveries
                            ELSE Append(deliveries, Delivery(groupID, SortByID(msgs), now))
    /\ UNCHANGED <<now, messages, handled>>
    /\ UNCHANGED <<renderVars, lockVars, runVars, flood, keyCall>>

\* albumCollector.stop, called when the callback of client.Run returns
Stop ==
    /\ \E g \in Groups : albums[g] # <<>>
    /\ albums' = StopAll(albums, timers).albums
    /\ timers' = StopAll(albums, timers).timers
    /\ UNCHANGED <<now, messages, deliveries, handled>>
    /\ UNCHANGED <<renderVars, lockVars, runVars, flood, keyCall>>

\* The clock moves on once no timer is due and no flush is waiting
Tick ==
    /\ now < MaxTime
    /\ \A t \in 1..Len(timers.made) :
          /\ timers.made[t].state # "fired"
          /\ timers.made[t].state = "pending" => timers.made[t].due > now
    /\ now' = now + 1
    /\ UNCHANGED <<albums, timers, messages, deliveries, handled>>
    /\ UNCHANGED <<renderVars, lockVars, runVars, flood, keyCall>>

NextAlbum ==
    \/ HandleMessage
    \/ \E t \in 1..Len(timers.made) : TimerFires(t) \/ Flush(t)
    \/ Stop
    \/ Tick

SpecAlbum == InitAlbum /\ [][NextAlbum]_vars

---------------------------------------------------------------------------
(* The flood waits: goroutines send requests through the middleware; a     *)
(* request is answered with FLOOD_WAIT at most MaxFloods times. A call     *)
(* that has started goes on: the invocation returns, and the wait ends     *)
(* when its timer fires or ctx is done.                                    *)

InitFlood ==
    /\ RenderAtRest
    /\ BotAtRest

\* A request enters the function Handle returns
HandleRequest(g) ==
    /\ flood[g].pc \in {"idle", "returned"}
    /\ flood' = [flood EXCEPT ![g] = FloodCall("invoke", "nil", "nil", MaxFloods)]
    /\ UNCHANGED <<renderVars, lockVars, runVars, albumVars, keyCall>>

\* part_006:19-25: next.Invoke returns err, and tgerr.FloodWait is entered
\* when err is not nil
Invoke(g) ==
    /\ flood[g].pc = "invoke"
    /\ \E err \in Answers :
          /\ err = "FLOOD_WAIT" => flood[g].left > 0
          /\ flood' = [flood EXCEPT ![g] = AfterInvoke(flood[g], err)]
    /\ UNCHANGED <<renderVars, lockVars, runVars, albumVars, keyCall>>

\* part_006:24-27: tgerr.FloodWait returns from its wait
Wait(g) ==
    /\ flood[g].pc = "wait"
    /\ \E waited \in BOOLEAN :
          flood' = [flood EXCEPT
                      ![g] = AfterWait(flood[g], waited,
                                       IF waited THEN flood[g].last ELSE "ctx")]
    /\ UNCHANGED <<renderVars, lockVars, runVars, albumVars, keyCall>>

NextFlood == \E g \in Goroutines : HandleRequest(g) \/ Invoke(g) \/ Wait(g)

SpecFlood ==
    /\ InitFlood
    /\ [][NextFlood]_vars
    /\ \A g \in Goroutines : WF_vars(Invoke(g)) /\ WF_vars(Wait(g))

---------------------------------------------------------------------------
(* The scope keys: every scope is written as a key and the key is parsed,  *)
(* and the keys that the file of the saved scopes may hold are parsed.     *)

\* The values of the integer fields: negative, zero, positive, two digits
ScopeIDs == ((0 - 1)..MaxScopeID) \cup {10 + MaxScopeID}

\* The usernames: any string of a letter, a space and the separator
NameAlphabet == {"a", " ", "|"}

LangCodes == {"", "en", "e|"}

\* Keys as the file may hold them: well formed, without separator, with an
\* unknown scope name, with a field missing or malformed
FileKeys == {"", "default", "default|", "users|en", "bogus|en", "unknown|",
             "chat:|", "chat:x|", "chat:1x|", "chat_member:1:2|en", "user:@|"}

InitKey ==
    /\ RenderAtRest
    /\ LocksAtRest
    /\ RunAtRest
    /\ config = [SyncCommands |-> FALSE]
    /\ AlbumAtRest
    /\ FloodAtRest
    /\ \/ \E type \in DOMAIN ScopeArity, langCode \in LangCodes :
             \E ids \in [1..ScopeArity[type] -> ScopeIDs] :
                keyCall = KeyCall("start", "scope", Scope(type, ids, ""), langCode,
                                  "", Parsed(Nil, ""))
       \/ \E type \in NamedScopeTypes, langCode \in LangCodes :
             \E name \in StringsUpTo(NameAlphabet, MaxNameLen) :
                keyCall = KeyCall("start", "scope", Scope(type, <<>>, name), langCode,
                                  "", Parsed(Nil, ""))
       \/ \E langCode \in LangCodes :
             keyCall = KeyCall("start", "scope", Nil, langCode, "", Parsed(Nil, ""))
       \/ \E key \in FileKeys :
             keyCall = KeyCall("keyed", "file", Nil, "", key, Parsed(Nil, ""))

\* key := scopeKeyString(scope, langCode)
KeyString ==
    /\ keyCall.pc = "start"
    /\ keyCall' = [keyCall EXCEPT
                      !.pc = "keyed",
                      !.key = scopeKeyString(keyCall.scope, keyCall.langCode)]
    /\ UNCHANGED <<renderVars, lockVars, runVars, albumVars, flood>>

\* gotScope, gotLangCode := parseScopeKey(key)
ParseKey ==
    /\ keyCall.pc = "keyed"
    /\ keyCall' = [keyCall EXCEPT !.pc = "parsed", !.got = parseScopeKey(keyCall.key)]
    /\ UNCHANGED <<renderVars, lockVars, runVars, albumVars, flood>>

NextKey == KeyString \/ ParseKey

SpecKey == InitKey /\ [][NextKey]_vars

---------------------------------------------------------------------------
(* Reading the markup back: what the properties below say about the output *)
(* string.                                                                 *)

Terminated == pc \in {"done", "panic"}

\* The least j >= i with s[j] = c, 0 when there is none (1-based)
RECURSIVE FindRune(_, _, _)
FindRune(s, i, c) ==
    IF i > Len(s) THEN 0
    ELSE IF SubSeq(s, i, i) = c THEN i
    ELSE FindRune(s, i + 1, c)

\* The name of an opening tag, given what stands between "<" and ">"
TagName(body) ==
    LET sp == FindRune(body, 1, " ")
    IN  IF sp = 0 THEN body ELSE SubSeq(body, 1, sp - 1)

\* Scanning s from i with a stack of open tag names: every closing tag matches
\* the most recently opened tag that is still open, and the stack is empty at
\* the end. <br> opens nothing.
RECURSIVE ScanTags(_, _, _)
ScanTags(s, i, stack) ==
    IF i > Len(s) THEN stack = <<>>
    ELSE IF SubSeq(s, i, i) # "<" THEN ScanTags(s, i + 1, stack)
    ELSE LET j == FindRune(s, i + 1, ">")
         IN  IF j = 0 THEN ScanTags(s, i + 1, stack)
             ELSE LET body == SubSeq(s, i + 1, j - 1)
                  IN  IF Len(body) >= 1 /\ SubSeq(body, 1, 1) = "/"
                      THEN /\ stack # <<>>
                           /\ stack[Len(stack)] = Tail(body)
                           /\ ScanTags(s, j + 1, SubSeq(stack, 1, Len(stack) - 1))
                      ELSE IF TagName(body) = "br"
                      THEN ScanTags(s, j + 1, stack)
                      ELSE ScanTags(s, j + 1, Append(stack, TagName(body)))

Balanced(s) == ScanTags(s, 1, <<>>)

\* The rune an escape sequence stands for, "" when it is none
UnescapeEntity(ent) ==
    CASE ent = "&amp;" -> "&"
      [] ent = "&#39;" -> "'"
      [] ent = "&lt;" -> "<"
      [] ent = "&gt;" -> ">"
      [] ent = "&#34;" -> "\""
      [] OTHER -> ""

\* s from i with the tags removed, <br> read as a line break and the escape
\* sequences read as the runes they stand for
RECURSIVE UnrenderFrom(_, _)
UnrenderFrom(s, i) ==
    IF i > Len(s) THEN ""
    ELSE LET c == SubSeq(s, i, i)
             gt == FindRune(s, i + 1, ">")
             semi == FindRune(s, i + 1, ";")
         IN  IF c = "<" /\ gt # 0
             THEN (IF SubSeq(s, i, gt) = "<br>" THEN "\n" ELSE "")
                  \o UnrenderFrom(s, gt + 1)
             ELSE IF c = "&" /\ semi # 0 /\ UnescapeEntity(SubSeq(s, i, semi)) # ""
             THEN UnescapeEntity(SubSeq(s, i, semi)) \o UnrenderFrom(s, semi + 1)
             ELSE c \o UnrenderFrom(s, i + 1)

Unrender(s) == UnrenderFrom(s, 1)

\* No rune of s can open or close a tag
NoTags(s) == FindRune(s, 1, "<") = 0 /\ FindRune(s, 1, ">") = 0

\* The tags written for the span with this id
TagsOf(id) == SelectSeq(tagLog, LAMBDA t : t.id = id)

Opens(id) == Len(SelectSeq(tagLog, LAMBDA t : t.id = id /\ t.op = "open"))

Closes(id) == Len(SelectSeq(tagLog, LAMBDA t : t.id = id /\ t.op = "close"))

---------------------------------------------------------------------------
(* The properties. *)

\* C1: the markup returned has its tags balanced and never crossing: scanned
\* left to right with a stack, every closing tag matches the most recently
\* opened tag still open, and the stack is empty at the end.
C1_TagBalance == pc = "done" => Balanced(result)

\* C2: the call never panics, whatever the kinds, offsets and lengths of the
\* entities.
C2_NeverPanics == pc # "panic"

\* C3: the text is rendered intact: the markup with its tags removed and its
\* escaping undone is the text.
C3_TextIntact == pc = "done" => Unrender(result) = text

\* C4: with no entities the markup is the escaped text: it holds no tag, it
\* reads back as the text, and it is empty for the empty text.
C4_NoOpLaw ==
    (pc = "done" /\ entities = <<>>)
        => /\ result = EscapeString(text)
           /\ NoTags(result)
           /\ Unrender(result) = text
           /\ (text = "" => result = "")

C4_Witness ==
    /\ pc = "done"
    /\ entities = <<>>
    /\ Len(text) = KindLen
    /\ FindRune(text, 1, "<") # 0
    /\ result # text

\* C10: every span that reaches event generation is inside the text and has a
\* positive length.
C10_SpanInvariant ==
    \A k \in 1..Len(infos) :
        /\ 0 <= infos[k].offset
        /\ infos[k].offset + infos[k].length <= Len(text)
        /\ infos[k].length > 0

\* What the properties say of the input, read off the arguments alone.

InputOutOfBounds(e) == e.offset < 0 \/ e.offset + e.length > Len(text)

UnsupportedKinds == {"CustomEmoji", "Hashtag"}

UntrimmedKinds == {"Pre", "Blockquote"}

IsBlank(c) == c \in {" ", "\t"}

\* The length left of the range of an entity inside the text when the run of
\* spaces and tabs at its end is taken off
TrimmedLength(e) ==
    IF e.length <= 0 THEN 0
    ELSE CHOOSE t \in 0..e.length :
            /\ t = 0 \/ ~IsBlank(RuneAt(text, e.offset + t - 1))
            /\ \A u \in (t + 1)..e.length : IsBlank(RuneAt(text, e.offset + u - 1))

\* The outcome of the call on the entities that are not P: the same markup
\* when this call returns, a panic when this call panics.
SameWithout(kept) ==
    /\ pc = "done" =>
          LET r == RenderOutcome(text, kept, "zero")
          IN  r.pc = "done" /\ r.result = result
    /\ pc = "panic" => RenderOutcome(text, kept, "panic").pc = "panic"

\* C5: an entity whose range is out of bounds is dropped, never clamped: no
\* tag is written for it, and the call ends as it does without that entity.
C5_OutOfBoundsDropped ==
    /\ \A k \in 1..Len(entities) :
          InputOutOfBounds(entities[k]) => TagsOf(k - 1) = <<>>
    /\ (Terminated /\ \E k \in 1..Len(entities) : InputOutOfBounds(entities[k]))
          => SameWithout(SelectSeq(entities, LAMBDA e : ~InputOutOfBounds(e)))

C5_Witness ==
    /\ pc = "done"
    /\ Len(entities) = 2
    /\ entities[1].kind = "Pre"
    /\ entities[1].offset = 1
    /\ entities[1].length = 2
    /\ Len(text) = 2
    /\ Opens(1) = 1
    /\ Closes(1) = 1

TagsSpan(id, from, to) ==
    LET tags == TagsOf(id)
    IN  /\ tags # <<>>
        /\ tags[1].op = "open"
        /\ tags[1].pos = from
        /\ tags[Len(tags)].op = "close"
        /\ tags[Len(tags)].pos = to
        /\ \A j \in 1..Len(tags) : from <= tags[j].pos /\ tags[j].pos <= to

C9_BoundaryTrim ==
    pc = "done" =>
        \A k \in 1..Len(entities) :
            LET e == entities[k]
            IN  (~InputOutOfBounds(e) /\ e.kind \notin UnsupportedKinds) =>
                    IF e.kind \in UntrimmedKinds
                    THEN /\ \E j \in 1..Len(infos) :
                               infos[j].id = k - 1 /\ infos[j].length = e.length
                         /\ e.length > 0 =>
                               TagsSpan(k - 1, e.offset, e.offset + e.length)
                    ELSE IF TrimmedLength(e) = 0
                    THEN TagsOf(k - 1) = <<>>
                    ELSE TagsSpan(k - 1, e.offset, e.offset + TrimmedLength(e))

C9_Witness ==
    /\ pc = "done"
    /\ Len(entities) = 1
    /\ entities[1].kind = "Spoiler"
    /\ entities[1].offset = 0
    /\ entities[1].length = 3
    /\ text = "a \t"
    /\ TrimmedLength(entities[1]) = 1
    /\ result = "<span class=\"spoiler\">a</span> \t"

\* The spans of the call and where they end
SpanEnd(x) == x.offset + x.length

IsValidSpan(x) == 0 <= x.offset /\ x.length > 0 /\ SpanEnd(x) <= Len(text)

Crosses(a, b) ==
    a.offset < b.offset /\ b.offset < SpanEnd(a) /\ SpanEnd(a) < SpanEnd(b)

\* The markup of two crossing spans a and b, a the one that starts first
CrossingMarkup(a, b) ==
    EscapeString(SliceRunes(text, 0, a.offset))
    \o a.startTag
    \o SegmentText(SliceRunes(text, a.offset, b.offset), <<a>>)
    \o b.startTag
    \o SegmentText(SliceRunes(text, b.offset, SpanEnd(a)), <<a, b>>)
    \o b.endTag \o a.endTag \o b.startTag
    \o SegmentText(SliceRunes(text, SpanEnd(a), SpanEnd(b)), <<b>>)
    \o b.endTag
    \o EscapeString(SliceRunes(text, SpanEnd(b), Len(text)))

\* C7: two valid spans a = [a1,a2) and b = [b1,b2) with a1 < b1 < a2 < b2, and
\* no other span: the markup is text, a-open, text, b-open, text, b-close,
\* a-close, b-open, text, b-close, text; b has two tag pairs and a has one.
\* Bold [0,8) and Italic [3,11) over "Hello World" give the markup of the test.
C7_CrossingLaw ==
    /\ (pc = "done" /\ Len(infos) = 2) =>
          \A j, k \in 1..2 :
              (IsValidSpan(infos[j]) /\ IsValidSpan(infos[k])
                 /\ Crosses(infos[j], infos[k])) =>
                  /\ result = CrossingMarkup(infos[j], infos[k])
                  /\ Opens(infos[j].id) = 1 /\ Closes(infos[j].id) = 1
                  /\ Opens(infos[k].id) = 2 /\ Closes(infos[k].id) = 2
    /\ (pc = "done" /\ text = "Hello World") =>
          result = "<strong>Hel<em>lo Wo</em></strong><em>rld</em>"

C7_Witness ==
    /\ pc = "done"
    /\ Len(infos) = 2
    /\ Crosses(infos[2], infos[1])
    /\ infos[2].offset > 0
    /\ Opens(infos[1].id) = 2
    /\ result = "a<em>b<strong>c</strong></em><strong>d</strong>"

\* Where the tags of a span stand in the markup
FirstOpen(id) == CHOOSE j \in 1..Len(tagLog) :
                    /\ tagLog[j].id = id /\ tagLog[j].op = "open"
                    /\ \A i \in 1..(j - 1) : tagLog[i].id # id

LastClose(id) == CHOOSE j \in 1..Len(tagLog) :
                    /\ tagLog[j].id = id /\ tagLog[j].op = "close"
                    /\ \A i \in (j + 1)..Len(tagLog) : tagLog[i].id # id

Unsplit(id) == Opens(id) = 1 /\ Closes(id) = 1

Contains(a, b) ==
    a.offset <= b.offset /\ SpanEnd(a) >= SpanEnd(b) /\ a.length > b.length

\* a and b are unsplit and the tags of b stand inside the tags of a
NestedUnsplit(a, b) ==
    /\ Unsplit(a.id)
    /\ Unsplit(b.id)
    /\ FirstOpen(a.id) < FirstOpen(b.id)
    /\ LastClose(b.id) < LastClose(a.id)

\* s starts before x and ends inside x or where x starts
CutsInto(s, x) ==
    s.offset < x.offset /\ x.offset <= SpanEnd(s) /\ SpanEnd(s) < SpanEnd(x)

Utf16Len(c) == IF c = AstralRune THEN 2 ELSE 1

RECURSIVE UnitsBefore(_, _)
UnitsBefore(s, n) ==
    IF n <= 0 THEN 0 ELSE UnitsBefore(s, n - 1) + Utf16Len(RuneAt(s, n - 1))

\* C11: offsets and lengths count UTF-16 code units: when the code units
\* [offset, offset+length) of an entity are those of the code points [a, b) of
\* the text, a < b, the tags of the entity open at code point a and close at
\* code point b, also when a code point of two code units stands before or
\* inside the range.
C11_Utf16Offsets ==
    pc = "done" =>
        \A k \in 1..Len(entities) :
            \A a, b \in 0..Len(text) :
                (/\ a < b
                 /\ UnitsBefore(text, a) = entities[k].offset
                 /\ UnitsBefore(text, b) = entities[k].offset + entities[k].length)
                    => TagsSpan(k - 1, a, b)

\* The segments of the text as the steps write them.

\* A step that writes a segment of the text: an iteration of the loop whose
\* event lies beyond lastPos and whose slice does not panic, or the flush after
\* the last event when text is left
IsFlushStep ==
    \/ /\ pc = "sweep"
       /\ evIdx <= Len(events)
       /\ events[evIdx].pos > lastPos
       /\ pc' # "panic"
    \/ /\ pc = "flush"
       /\ lastPos < Len(text)
       /\ pc' = "done"

\* The runes of the segment, before any escaping
FlushedRaw ==
    IF pc = "sweep" THEN SliceRunes(text, lastPos, events[evIdx].pos)
    ELSE SliceRunes(text, lastPos, Len(text))

\* What the step appends to the markup
Appended == SubSeq(result', Len(result) + 1, Len(result'))


\* The occurrences of sub in s
CountSub(s, sub) ==
    Cardinality({i \in 1..(Len(s) - Len(sub) + 1) : SubSeq(s, i, i + Len(sub) - 1) = sub})

\* C12: a segment written while no Pre is on the open stack is written
\* escaped, and a segment written while a Pre is on the open stack is written
\* as it is, a Blockquote on the stack or not; the stack is the one before the
\* event at the end of the segment changes it.
C12_EscapingPolicy ==
    [][IsFlushStep =>
          HasPrefix(Appended,
                    IF InsidePre(openStack) THEN FlushedRaw
                    ELSE IF InsideBlockquote(openStack)
                    THEN ReplaceNewlines(EscapeString(FlushedRaw))
                    ELSE EscapeString(FlushedRaw))]_vars

\* C13: the line breaks of a segment are written as <br> when a Blockquote is
\* on the open stack and no Pre is, and are written as they are in every other
\* context.
C13_NewlinePolicy ==
    [][IsFlushStep =>
          LET n == CountSub(FlushedRaw, "\n")
              br == CountSub(result', "<br>") - CountSub(result, "<br>")
              nl == CountSub(result', "\n") - CountSub(result, "\n")
          IN  IF InsideBlockquote(openStack) /\ ~InsidePre(openStack)
              THEN br = n /\ nl = 0
              ELSE br = 0 /\ nl = n]_vars

\* C18: when the last event has been processed the open stack is empty, so the
\* text after the last event is written with no Pre and no Blockquote open.
C18_StackEmptyAtEnd == pc = "flush" => openStack = <<>>

\* The link kinds, and the value of the href attribute of an opening <a> tag
LinkKinds == {"TextURL", "MentionName", "Mention", "URL"}

HrefOf(startTag) == SubSeq(startTag, Len("<a href=\"") + 1, Len(startTag) - Len("\">"))

\* No rune of h is a raw quote, <, > or &: every & starts an escape sequence
IsEscaped(h) ==
    /\ FindRune(h, 1, "\"") = 0
    /\ FindRune(h, 1, "<") = 0
    /\ FindRune(h, 1, ">") = 0
    /\ \A i \in 1..Len(h) :
          SubSeq(h, i, i) = "&" =>
              \E j \in (i + 1)..Len(h) : UnescapeEntity(SubSeq(h, i, j)) # ""

\* C14: the href written in the opening tag of a span of a link kind is
\* escaped: it holds no raw quote, <, > or &.
C14_HrefEscaped ==
    \A k \in 1..Len(infos) :
        entities[infos[k].id + 1].kind \in LinkKinds
            => IsEscaped(HrefOf(infos[k].startTag))

\* C15: the href of the tag of a URL entity is the text its tags enclose: the
\* href with its escaping undone is the text between the place of the opening
\* tag and the place of the last closing tag, also for a range that ends in
\* spaces or tabs.
C15_AutoLinkHref ==
    (pc = "done" /\ Len(entities) = 1 /\ entities[1].kind = "URL" /\ Len(infos) = 1)
        => LET tags == TagsOf(0)
           IN  /\ tags # <<>>
               /\ Unrender(HrefOf(infos[1].startTag))
                      = SliceRunes(text, tags[1].pos, tags[Len(tags)].pos)

\* C16: the events are processed in order of position; at one position the
\* start events come before the end events, the start event of the longer span
\* before that of the shorter, and the end event of the shorter span before
\* that of the longer. The events processed so far lie at or before lastPos.
C16_EventOrder ==
    /\ \A i, j \in 1..Len(events) :
          i < j =>
              /\ events[i].pos <= events[j].pos
              /\ events[i].pos = events[j].pos =>
                    /\ events[i].isStart \/ ~events[j].isStart
                    /\ (events[i].isStart /\ events[j].isStart)
                          => events[i].entity.length >= events[j].entity.length
                    /\ (~events[i].isStart /\ ~events[j].isStart)
                          => events[i].entity.length <= events[j].entity.length
    /\ pc \in {"sweep", "flush", "done"} =>
          \A k \in 1..(evIdx - 1) : k <= Len(events) => events[k].pos <= lastPos

\* Three spans whose events the sort had to reorder: two that start together,
\* the longer one later in the input, and one that ends where another starts
C16_Witness ==
    /\ pc = "done"
    /\ Len(events) = 6
    /\ \E i, j \in 1..6 :
          /\ i < j
          /\ events[i].isStart /\ events[j].isStart
          /\ events[i].pos = events[j].pos
          /\ events[i].entity.length > events[j].entity.length
          /\ events[i].entity.id > events[j].entity.id
    /\ \E i, j \in 1..6 :
          /\ i < j
          /\ events[i].isStart /\ ~events[j].isStart
          /\ events[i].pos = events[j].pos
          /\ events[i].entity.id > events[j].entity.id

\* C17: the order of the events is total: the comparison function orders any
\* two distinct events strictly, also those of two entities of different kinds
\* with the same range, so that the sorted sequence and the markup owe nothing
\* to the sorting algorithm.
C17_TotalOrder ==
    \A i, j \in 1..Len(events) :
        i # j => EventCmp(events[i], events[j]) # 0

\* The calls of handleCommand and the lock.

\* The senders that are users
Users == UserIDs \ {0}

\* No two handlers of locked commands run for one sender of S
ExclusiveFor(S) ==
    \A g1, g2 \in Goroutines :
        (/\ g1 # g2
         /\ calls[g1].pc = "handler" /\ calls[g1].locked
         /\ calls[g2].pc = "handler" /\ calls[g2].locked
         /\ calls[g1].userID \in S)
            => calls[g1].userID # calls[g2].userID

\* The lock of a sender of S is held exactly while a call of a locked command
\* of that sender is between TryAcquire and its return
HeldWhileInProgress(S) ==
    \A u \in S :
        u \in locks <=> \E g \in Goroutines : /\ calls[g].pc \in InProgress
                                               /\ calls[g].locked
                                               /\ calls[g].userID = u

\* A step in which a locked command of a sender of S arrives: it goes on only
\* when the lock of the sender is free, and then holds it; it is dropped, its
\* handler not called, when the lock is held, and only then; the locks of the
\* other senders stay as they are.
ArrivalFor(S) ==
    \A g \in Goroutines :
        (/\ calls[g].pc \in Ended
         /\ calls'[g] # calls[g]
         /\ calls'[g].locked
         /\ calls'[g].userID \in S)
            => /\ calls'[g].pc \in InProgress =>
                     calls'[g].userID \notin locks /\ calls'[g].userID \in locks'
               /\ calls'[g].userID \in locks <=> calls'[g].pc = "dropped"
               /\ calls'[g].pc = "dropped" => locks' = locks
               /\ \A u \in UserIDs \ {calls'[g].userID} : u \in locks' <=> u \in locks

\* C19, as stated: for every sender, no two handlers of locked commands run
\* at the same time, a locked command goes on only when the lock of its sender
\* is free and then holds it, a locked command that arrives while the lock of
\* its sender is held is dropped, and the locks of the senders are independent.
C19_ExclusionAnySender ==
    /\ [](ExclusiveFor(UserIDs) /\ HeldWhileInProgress(UserIDs))
    /\ [][ArrivalFor(UserIDs)]_vars

\* C19, amended: the same for every sender whose id is not 0; the lock is not
\* consulted for a sender id of 0.
C19_ExclusionPerUser ==
    /\ [](ExclusiveFor(Users) /\ HeldWhileInProgress(Users) /\ 0 \notin locks)
    /\ [][ArrivalFor(Users)]_vars

\* The handler of a locked command of user 1 runs and holds the lock, and a
\* second locked command of user 1 has been dropped
C19_Witness ==
    /\ calls[1] = Call("handler", 1, TRUE)
    /\ calls[2] = Call("dropped", 1, TRUE)
    /\ locks = {1}

\* C20: a command that is not locked is never blocked and never touches the
\* lock: TryAcquire(user, false) returns true and leaves the table as it is in
\* every state; the call of such a command goes on whatever the locks, and
\* neither its start nor its return changes the table.
C20_UnlockedFrame ==
    /\ [](\A u \in UserIDs : TryAcquire(locks, u, FALSE) = [ok |-> TRUE, locks |-> locks])
    /\ [][\A g \in Goroutines :
             /\ (/\ calls[g].pc \in Ended
                 /\ calls'[g] # calls[g]
                 /\ calls'[g].pc # "ignored"
                 /\ ~calls'[g].locked)
                    => calls'[g].pc \in InProgress /\ locks' = locks
             /\ (/\ calls[g].pc \in InProgress
                 /\ ~calls[g].locked
                 /\ calls'[g].pc = "returned")
                    => locks' = locks]_vars

\* A command of user 1 that is not locked runs while the handler of a locked
\* command of user 1 runs and holds the lock
C20_Witness ==
    /\ calls[1] = Call("handler", 1, TRUE)
    /\ calls[2] = Call("handler", 1, FALSE)
    /\ locks = {1}

---------------------------------------------------------------------------
KnownTypes == DOMAIN ScopeArity \cup NamedScopeTypes

ScopeNames == {"default", "users", "chats", "chat_admins"}

ScopePrefixes == {"chat:", "channel_member:", "channel:", "chat_admins:",
                  "channel_admins:", "chat_member:", "user:"}

\* The part of the key before its first separator
ScopePart(key) == SubSeq(key, 1, IndexByte(key, "|") - 1)

UnknownName(key) ==
    /\ IndexByte(key, "|") > 0
    /\ ScopePart(key) \notin ScopeNames
    /\ \A prefix \in ScopePrefixes : ~HasPrefix(ScopePart(key), prefix)

\* C25: the key of a scope parses back to it: for every scope of every type
\* and every language code, parseScopeKey(scopeKeyString(scope, langCode)) is
\* a scope of the same type with the same fields, and the same language
\* code; a key without separator or with an unknown scope name parses to
\* (nil, "").
C25_ScopeKeyRoundTrip ==
    keyCall.pc = "parsed" =>
        /\ (keyCall.from = "scope" /\ keyCall.scope.type \in KnownTypes) =>
                keyCall.got = Parsed(keyCall.scope, keyCall.langCode)
        /\ (IndexByte(keyCall.key, "|") = 0 \/ UnknownName(keyCall.key)) =>
                keyCall.got = Parsed(Nil, "")

---------------------------------------------------------------------------
\* The goroutines whose call of Run is in progress
ActiveRuns == {g \in Goroutines : runs[g] \in RunActive}

\* C21: at most one Run is in progress for a Bot. A call of Run made while
\* another is in progress returns ErrAlreadyRunning and does not start the
\* client: it changes nothing else. The running flag is set exactly while a
\* call is in progress, so once Run has returned the next call is accepted
\* and starts the client.
C21_SingleRun ==
    /\ [](Cardinality(ActiveRuns) <= 1 /\ (running <=> ActiveRuns # {}))
    /\ [][\A g \in Goroutines :
            (runs[g] \in RunEnded /\ runs'[g] # runs[g]) =>
                IF ActiveRuns # {}
                THEN /\ runs'[g] = "already"
                     /\ UNCHANGED <<running, api, handlers, snapshot, updates, saved,
                                    server>>
                ELSE runs'[g] = "client" /\ running']_vars

\* A call of Run has been refused while another processes updates
C21_Witness ==
    \E g, h \in Goroutines :
        /\ runs[g] = "already"
        /\ runs[h] = "updates"
        /\ updates > 0

C26_NotRunningGuard ==
    (lastOp.op # "none" /\ ~lastOp.wasRunning) =>
        (lastOp.err = "ErrBotNotRunning" /\ ~lastOp.apiCalls)

\* C28: the scopes that SyncCommands set stay tracked: every key that has
\* commands at Telegram is in the file of the saved scopes.
C28_ScopesTracked == server \subseteq saved

---------------------------------------------------------------------------
\* The ids of the messages handed to the album callback so far
Delivered == UNION {{d.ids[k] : k \in 1..Len(d.ids)} : d \in {deliveries[j] : j \in 1..Len(deliveries)}}

\* The ids of the messages the collector holds
Collected == UNION {{albums[g][k] : k \in 1..Len(albums[g])} : g \in Groups}

\* C23: an incoming message with a GroupedID other than 0 is never processed
\* on its own: handleMessage leaves it to the album collector, it reaches no
\* message handler and no command handler, and only the album callback hands
\* it on; a message with GroupedID 0 is never collected.
C23_AlbumsOnly ==
    /\ [](\A k \in 1..Len(messages) :
            LET msg == messages[k]
            IN  /\ (~msg.out /\ msg.groupedID # 0) =>
                      \A h \in handled : h.id # msg.id
                /\ msg.groupedID = 0 => msg.id \notin Collected \cup Delivered)
    /\ [][Len(messages') > Len(messages) =>
            LET msg == messages'[Len(messages')]
            IN  /\ (~msg.out /\ msg.groupedID # 0) =>
                      /\ albums' = [albums EXCEPT ![msg.groupedID] = Append(@, msg.id)]
                      /\ UNCHANGED <<handled, deliveries>>
                /\ msg.groupedID = 0 => UNCHANGED <<albums, timers, deliveries>>]_vars

\* A command that is part of an album has been handed to the album callback,
\* and a message that is part of no album has been processed on its own
C23_Witness ==
    /\ \E k \in 1..Len(messages) :
          /\ messages[k].command /\ ~messages[k].out /\ messages[k].groupedID # 0
          /\ messages[k].id \in Delivered
    /\ \E k \in 1..Len(messages) :
          /\ messages[k].groupedID = 0
          /\ \E h \in handled : h.id = messages[k].id

\* The delivery that holds the message id (it is delivered)
DeliveryOf(id) ==
    CHOOSE j \in 1..Len(deliveries) : \E k \in 1..Len(deliveries[j].ids) :
        deliveries[j].ids[k] = id

\* Every call of the callback comes AlbumTimeout or more after the add of
\* each message it hands over, the last one included
CalledAfterTimeout ==
    \A j \in 1..Len(deliveries) :
        \A k \in 1..Len(deliveries[j].ids) :
            deliveries[j].at >= messages[deliveries[j].ids[k]].at + AlbumTimeout

\* Two messages of one group added less than AlbumTimeout apart, once
\* delivered, are in one call of the callback
DeliveredTogether ==
    \A a, b \in Delivered :
        (/\ messages[a].groupedID = messages[b].groupedID
         /\ messages[a].at - messages[b].at < AlbumTimeout
         /\ messages[b].at - messages[a].at < AlbumTimeout)
        => DeliveryOf(a) = DeliveryOf(b)

\* C24: the album callback of a group is called only when AlbumTimeout has
\* passed since the last message of the group was added, and the messages of
\* a group added less than AlbumTimeout apart are handed over in one call.
C24_Debounce == CalledAfterTimeout /\ DeliveredTogether

---------------------------------------------------------------------------
\* C27: the middleware does not hand a FLOOD_WAIT error on while the wait
\* can be completed: after a completed wait it invokes the request again; it
\* returns nil as soon as an invocation succeeds, and the error as soon as an
\* invocation fails with another error or the wait is cancelled; so a call
\* returns whenever only finitely many invocations fail with FLOOD_WAIT.
C27_FloodWaitRetry ==
    /\ [](\A g \in Goroutines :
            flood[g].pc = "returned" => flood[g].err \in {"nil", "other", "ctx"})
    /\ [][\A g \in Goroutines :
            /\ (flood[g].pc = "invoke" /\ flood'[g] # flood[g]) =>
                  /\ flood'[g].last = "nil" =>
                        (flood'[g].pc = "returned" /\ flood'[g].err = "nil")
                  /\ flood'[g].last = "other" =>
                        (flood'[g].pc = "returned" /\ flood'[g].err = "other")
                  /\ flood'[g].last = "FLOOD_WAIT" => flood'[g].pc = "wait"
            /\ (flood[g].pc = "wait" /\ flood'[g] # flood[g]) =>
                  \/ flood'[g].pc = "invoke"
                  \/ flood'[g].pc = "returned" /\ flood'[g].err = "ctx"]_vars
    /\ \A g \in Goroutines :
          (flood[g].pc \in {"invoke", "wait"}) ~> (flood[g].pc = "returned")

\* A request has succeeded after MaxFloods flood waits, while another was
\* given up because its wait was cancelled
C27_Witness ==
    \E g, h \in Goroutines :
        /\ flood[g].pc = "returned" /\ flood[g].err = "nil" /\ flood[g].left = 0
        /\ flood[h].pc = "returned" /\ flood[h].err = "ctx"

---------------------------------------------------------------------------
\* The ids of the spans that end at the position p
EndsAt(p) == {infos[k].id : k \in {j \in 1..Len(infos) : infos[j].offset + infos[j].length = p}}

\* The step of the loop handles an end event and does not panic
EndEventStep ==
    /\ pc = "sweep"
    /\ evIdx <= Len(events)
    /\ evIdx' = evIdx + 1
    /\ pc' # "panic"
    /\ ~events[evIdx].isStart

OnStack(id) == \E k \in 1..Len(openStack) : openStack[k].id = id

\* What the step has added to the log of the tags
NewTags == SubSeq(tagLog', Len(tagLog) + 1, Len(tagLog'))

\* C29: the end event of a span S on the open stack closes every span above
\* S from the top down and then S; the spans closed with S that do not end at
\* this position get a new opening tag, are on the stack again and are not in
\* the closed set; those that end at this position stay closed, and the end
\* event of a span in the closed set writes no tag and leaves the stack alone.
C29_ReopenRule ==
    [][EndEventStep =>
        LET ev == events[evIdx]
            S == ev.entity.id
            n == Len(openStack)
        IN  /\ OnStack(S) =>
                  LET idx == CHOOSE k \in 1..n : openStack[k].id = S
                      above == [k \in 1..(n - idx) |-> openStack[n - k + 1].id]
                      back == {above[k] : k \in 1..(n - idx)} \ EndsAt(ev.pos)
                      stay == {above[k] : k \in 1..(n - idx)} \cap EndsAt(ev.pos)
                  IN  /\ Len(tagLog') = Len(tagLog) + (n - idx + 1) + Cardinality(back)
                      /\ \A k \in 1..(n - idx) :
                            NewTags[k] = [op |-> "close", id |-> above[k], pos |-> ev.pos]
                      /\ NewTags[n - idx + 1] = [op |-> "close", id |-> S, pos |-> ev.pos]
                      /\ {NewTags[k] : k \in (n - idx + 2)..Len(NewTags)}
                            = {[op |-> "open", id |-> x, pos |-> ev.pos] : x \in back}
                      /\ Len(openStack') = idx - 1 + Cardinality(back)
                      /\ {openStack'[k].id : k \in 1..Len(openStack')}
                            = {openStack[k].id : k \in 1..(idx - 1)} \cup back
                      /\ alreadyClosed' \cap back = {}
                      /\ ({S} \cup stay) \subseteq alreadyClosed'
            /\ (S \in alreadyClosed /\ ~OnStack(S)) =>
                  (tagLog' = tagLog /\ openStack' = openStack)]_vars

\* The end event of one span has closed two spans above it, one that was
\* opened again and one that ends at the same position and stayed closed, and
\* the end event of the latter has since been passed
C29_Witness ==
    /\ pc \in {"sweep", "flush", "done"}
    /\ \E i, j, l \in 1..Len(tagLog) :
          /\ i < j /\ l < j
          /\ tagLog[i].op = "close" /\ tagLog[j].op = "open"
          /\ tagLog[i].id = tagLog[j].id /\ tagLog[i].pos = tagLog[j].pos
          /\ tagLog[l].op = "close" /\ tagLog[l].pos = tagLog[j].pos
          /\ tagLog[l].id \in alreadyClosed
          /\ \E k \in 1..(evIdx - 1) :
                /\ ~events[k].isStart
                /\ events[k].entity.id = tagLog[l].id
                /\ \E m \in 1..(k - 1) :
                      /\ ~events[m].isStart
                      /\ events[m].pos = events[k].pos
                      /\ events[m].entity.id # tagLog[i].id

---------------------------------------------------------------------------
\* The spans a and b are disjoint, touching included
Disjoint(a, b) ==
    \/ a.offset + a.length <= b.offset
    \/ b.offset + b.length <= a.offset

\* The span a lies inside the span b
Inside(a, b) == b.offset <= a.offset /\ a.offset + a.length <= b.offset + b.length

\* Every two valid spans are disjoint or nested
NoCrossing ==
    \A i, j \in 1..Len(infos) :
        i # j => \/ Disjoint(infos[i], infos[j])
                 \/ Inside(infos[i], infos[j])
                 \/ Inside(infos[j], infos[i])

\* The number of tags of the kind op written for the span id
TagCount(op, id) ==
    Cardinality({k \in 1..Len(tagLog) : tagLog[k].op = op /\ tagLog[k].id = id})

\* No end event closes a span other than its own
NoForcedClose ==
    [][(EndEventStep /\ NoCrossing) =>
          \A k \in 1..Len(NewTags) :
              NewTags[k] = [op |-> "close", id |-> events[evIdx].entity.id,
                            pos |-> events[evIdx].pos]]_vars

\* Every span has one opening and one closing tag in the output
OneTagPair ==
    [](pc = "done" /\ Len(infos) > 0 /\ NoCrossing =>
          \A k \in 1..Len(infos) :
              TagCount("open", infos[k].id) = 1 /\ TagCount("close", infos[k].id) = 1)

\* C30: when every two valid spans are disjoint (touching included) or
\* nested, no end event closes a span other than its own, and the output has
\* exactly one opening and one closing tag of every span.
C30_NoReopening == NoForcedClose /\ OneTagPair

---------------------------------------------------------------------------
\* No surviving span has a negative length
NoNegativeLength == \A k \in 1..Len(infos) : infos[k].length >= 0

\* The sweep stands between two events, or after the last
BetweenEvents == pc \in {"sweep", "flush", "done"}

\* The span id was closed with the end event of another span at position p:
\* its last tag is a closing tag written at p, and an earlier event is the
\* end event at p of another span
ClosedEarlierAt(id, p) ==
    /\ \E k \in 1..Len(tagLog) :
          /\ tagLog[k] = [op |-> "close", id |-> id, pos |-> p]
          /\ \A j \in (k + 1)..Len(tagLog) : tagLog[j].id # id
    /\ \E m \in 1..(evIdx - 1) :
          /\ ~events[m].isStart
          /\ events[m].pos = p
          /\ events[m].entity.id # id

\* C31: when no surviving span has a negative length, then between events no
\* id is twice on the open stack and no id is on the open stack and in the
\* closed set; and the span of the end event that comes next is on the open
\* stack, or it is in the closed set and was closed by an earlier end event
\* at the position of its own.
C31_SweepState ==
    (BetweenEvents /\ NoNegativeLength) =>
        /\ \A i, j \in 1..Len(openStack) : i # j => openStack[i].id # openStack[j].id
        /\ \A k \in 1..Len(openStack) : openStack[k].id \notin alreadyClosed
        /\ (pc = "sweep" /\ evIdx <= Len(events) /\ ~events[evIdx].isStart) =>
              LET S == events[evIdx].entity.id
              IN  \/ OnStack(S)
                  \/ S \in alreadyClosed /\ ClosedEarlierAt(S, events[evIdx].pos)

\* The end event that comes next is that of a span that an earlier end
\* event at this position has closed, in an input with a span of length 0
C31_Witness ==
    /\ pc = "sweep"
    /\ NoNegativeLength
    /\ \E k \in 1..Len(infos) : infos[k].length = 0
    /\ evIdx <= Len(events)
    /\ ~events[evIdx].isStart
    /\ ~OnStack(events[evIdx].entity.id)
    /\ events[evIdx].entity.id \in alreadyClosed

---------------------------------------------------------------------------
\* The place of the span id on the stack, 0 when it is not there
PlaceOn(stack, id) ==
    IF \E k \in 1..Len(stack) : stack[k].id = id
    THEN CHOOSE k \in 1..Len(stack) : stack[k].id = id
    ELSE 0

\* The place of the opening tag of the span id among the tags of the step
OpenedAt(id) ==
    CHOOSE k \in 1..Len(NewTags) : NewTags[k].op = "open" /\ NewTags[k].id = id

\* The spans that the step closes and opens again
Reopened ==
    {id \in {NewTags[k].id : k \in 1..Len(NewTags)} :
        /\ \E k \in 1..Len(NewTags) : NewTags[k].op = "close" /\ NewTags[k].id = id
        /\ \E k \in 1..Len(NewTags) : NewTags[k].op = "open" /\ NewTags[k].id = id}

\* C32: the spans that an end event closes and opens again are opened in the
\* order in which they were closed, the innermost first: of two such spans X
\* and Y, with Y above X on the stack, the closing tag and the opening tag of
\* Y come before those of X, and Y is below X on the stack afterwards.
C32_ReopenOrder ==
    [][EndEventStep =>
        \A X, Y \in Reopened :
            (PlaceOn(openStack, X) < PlaceOn(openStack, Y)) =>
                /\ \E i, j \in 1..Len(NewTags) :
                      /\ i < j
                      /\ NewTags[i] = [op |-> "close", id |-> Y, pos |-> events[evIdx].pos]
                      /\ NewTags[j] = [op |-> "close", id |-> X, pos |-> events[evIdx].pos]
                /\ OpenedAt(Y) < OpenedAt(X)
                /\ PlaceOn(openStack', Y) > 0
                /\ PlaceOn(openStack', Y) < PlaceOn(openStack', X)]_vars

\* An end event has closed the span y and then the span x below it, and has
\* opened y and then x again; y is below x on the stack
C32_Witness ==
    /\ pc = "sweep"
    /\ \E a, b, c, d \in 1..Len(tagLog) :
          /\ a < b /\ b < c /\ c < d /\ d = Len(tagLog)
          /\ tagLog[a].op = "close" /\ tagLog[b].op = "close"
          /\ tagLog[c].op = "open" /\ tagLog[d].op = "open"
          /\ tagLog[a].id = tagLog[c].id /\ tagLog[b].id = tagLog[d].id
          /\ tagLog[a].id # tagLog[b].id
          /\ tagLog[a].pos = tagLog[d].pos /\ tagLog[b].pos = tagLog[d].pos
          /\ tagLog[c].pos = tagLog[d].pos
          /\ PlaceOn(openStack, tagLog[c].id) > 0
          /\ PlaceOn(openStack, tagLog[c].id) < PlaceOn(openStack, tagLog[d].id)

---------------------------------------------------------------------------
\* The call of goroutine g holds the lock of its sender
HoldsLock(g) ==
    /\ calls[g].pc \in InProgress
    /\ calls[g].locked
    /\ calls[g].userID # 0

\* C33: the lock taken for a locked command is released when its handling
\* ends: when the call returns, with nil or with the error of the handler or
\* after a parameter error, the lock of its sender is free; a lock is held
\* only while the call that took it is in progress; a locked command that
\* arrives when the lock of its sender is free is not dropped; and no lock
\* stays held for ever.
C33_LockReleased ==
    /\ [][\A g \in Goroutines :
             /\ (HoldsLock(g) /\ calls'[g].pc \notin InProgress) =>
                   /\ calls'[g].pc = "returned"
                   /\ calls[g].userID \notin locks'
             /\ (calls'[g] # calls[g] /\ calls'[g].pc = "dropped") =>
                   calls'[g].userID \in locks]_vars
    /\ [](\A u \in locks : \E g \in Goroutines : HoldsLock(g) /\ calls[g].userID = u)
    /\ \A u \in UserIDs : (u \in locks) ~> (u \notin locks)

\* The handler of a locked command of a user has returned an error, the
\* lock was released, and a later locked command of that user was accepted
\* and holds the lock
C33_Witness ==
    \E g, h \in Goroutines :
        /\ calls[g].pc = "returned" /\ calls[g].err = "error"
        /\ calls[g].locked /\ calls[g].userID # 0
        /\ HoldsLock(h)
        /\ calls[h].userID = calls[g].userID
        /\ calls[h].userID \in locks

\* The place of the first rune of s from i on that is one of stops,
\* Len(s) + 1 when there is none
RECURSIVE StopAt(_, _, _)
StopAt(s, i, stops) ==
    IF i <= Len(s) /\ SubSeq(s, i, i) \notin stops THEN StopAt(s, i + 1, stops)
    ELSE i

\* The command name of a text that starts with "/", read as "the text up to
\* "@" or whitespace, without the slash"
NameUpToAt(txt) == SubSeq(txt, 2, StopAt(txt, 2, {"@", " ", "\t", "\n", "\r"}) - 1)

\* The command name of a text that starts with "/": the text up to
\* whitespace without the slash, cut at its first "@" unless that is its
\* first rune
NameUpToInnerAt(txt) ==
    LET word == SubSeq(txt, 2, StopAt(txt, 2, {" ", "\t", "\n", "\r"}) - 1)
        at   == StopAt(word, 1, {"@"})
    IN  IF 1 < at /\ at <= Len(word) THEN SubSeq(word, 1, at - 1) ELSE word

\* The first registered command handler with a name whose filter matches a
\* sender, 0 when there is none
FirstRegistered(name, userID) ==
    IF \E k \in 1..Len(CommandHandlers) :
           /\ CommandHandlers[k].name = name
           /\ Matches(CommandHandlers[k], userID)
    THEN CHOOSE k \in 1..Len(CommandHandlers) :
           /\ CommandHandlers[k].name = name
           /\ Matches(CommandHandlers[k], userID)
           /\ \A j \in 1..(k - 1) :
                 ~(/\ CommandHandlers[j].name = name
                   /\ Matches(CommandHandlers[j], userID))
    ELSE 0

\* C34, as stated: a message whose text starts with "/" goes to the command
\* handlers only, no message handler runs for it, and the command handler
\* that runs, if any, is the first registered one whose name is the text up
\* to "@" or whitespace without the slash and whose filter matches; when the
\* command is given up for want of a handler there is no such handler.
C34_RoutingAsStated ==
    HasPrefix(routed.text, "/") =>
        /\ routed.kind \in {"none", "command"}
        /\ routed.messageHandlers = {}
        /\ routed.command \in
              {0, FirstRegistered(NameUpToAt(routed.text), routed.userID)}
        /\ routed.outcome = "nohandler" =>
              FirstRegistered(NameUpToAt(routed.text), routed.userID) = 0

\* C34: an incoming message outside an album whose text starts with "/" goes
\* to handleCommand and to no message handler; the command name is the first
\* field without the slash, cut at its first "@" unless that is its first
\* rune; the handler that runs, if any, is the first registered one with that
\* name whose filter matches, so a handler whose filter does not match is
\* passed over for a later one with the same name; none runs only when there
\* is no such handler, when the lock of a locked command is refused, or when
\* the parameters are wrong. A text that does not start with "/" never goes
\* to handleCommand.
C34_Routing ==
    /\ (~routed.out /\ routed.groupedID = 0 /\ HasPrefix(routed.text, "/")) =>
          LET k == FirstRegistered(NameUpToInnerAt(routed.text), routed.userID)
          IN  /\ routed.kind = "command"
              /\ routed.messageHandlers = {}
              /\ routed.command \in {0, k}
              /\ routed.outcome \in {"called", "nohandler", "dropped", "params"}
              /\ routed.outcome = "called" <=> routed.command # 0
              /\ routed.outcome = "nohandler" <=> k = 0
              /\ routed.outcome = "dropped" =>
                    CommandHandlers[k].locked /\ routed.userID # 0
    /\ routed.kind = "command" => HasPrefix(routed.text, "/")
    /\ routed.kind # "command" => routed.command = 0

\* A command with a bot name and a parameter from a sender that the filter
\* of the first "backup" handler does not match has been routed: the second
\* "backup" handler was called, and no message handler
C34_Witness ==
    /\ routed.text = "/backup@bot x"
    /\ routed.userID = 2
    /\ routed.kind = "command"
    /\ routed.outcome = "called"
    /\ routed.command = 2
    /\ CommandHandlers[1].name = "backup"
    /\ ~Matches(CommandHandlers[1], 2)
    /\ routed.messageHandlers = {}

====
